--------------------------- MODULE Provision_proofs --------------------------
(***************************************************************************)
(* Proofs about the setup programs, for any number of lock versions, any   *)
(* size of the archives, and any number of kills, cuts, lock moves and     *)
(* restarts: every variable keeps its type, an archive in place was        *)
(* verified, what a successful program leaves is whole, and the P7         *)
(* provenance names what is checked out.                                   *)
(*                                                                         *)
(* The chain of the proof: what each program consists of (ProgramShape),   *)
(* what a step does to the control (ControlStep) and to each part of the   *)
(* disk (Writers and the ...Step lemmas), the types (Types), what a marker *)
(* on the disk stands for (Marks), what a step may rely on (Work), and     *)
(* what the steps behind have made (Progress).                             *)
(***************************************************************************)
EXTENDS Provision, FiniteSetTheorems, TLAPS

------------------------------------------------------------------------------
(* The setup programs, step by step.                                       *)

PdkJobs     == {"gf180", "sky130", "ics55"}
PairOps     == {"Generate_liberty", "Prepare_sim_model"}
FromArchive == {"Unpack", "Extract_fatfs", "Extract_serv", "Extract_vww_jpegs"}

\* The archive a directory is made from, the corpus of the NPU included.
Source(t) == IF t = "jpeg" THEN "vww" ELSE ArchiveOf(t)

LEMMA Steps_environment ==
  ASSUME job = "environment"
  PROVE  /\ Len(Program[job]) = 8
         /\ Program[job][1] = Step("Has_environment", "gcc")
         /\ Program[job][2] = Step("Download", "gcc")
         /\ Program[job][3] = Step("Unpack", "gcc")
         /\ Program[job][4] = Step("Create_virtualenv", "venv")
         /\ Program[job][5] = Step("Pip", "venv")
         /\ Program[job][6] = Step("Write_stamp", "venv")
         /\ Program[job][7] = Step("Write_activation", "venv")
         /\ Program[job][8] = Step("Check", "venv")
BY DEF Program, Development_environment

LEMMA Steps_rtthread ==
  ASSUME job = "rtthread"
  PROVE  /\ Len(Program[job]) = 5
         /\ Program[job][1] = Step("Git", "os")
         /\ Program[job][2] = Step("Download", "gcc")
         /\ Program[job][3] = Step("Unpack", "gcc")
         /\ Program[job][4] = Step("Create_virtualenv", "venv")
         /\ Program[job][5] = Step("Pip", "venv")
BY DEF Program, Setup_hp_rtthread

LEMMA Steps_app ==
  ASSUME job = "app"
  PROVE  /\ Len(Program[job]) = 5
         /\ Program[job][1] = Step("Download", "fatfs")
         /\ Program[job][2] = Step("Extract_fatfs", "fatfs")
         /\ Program[job][3] = Step("Patch_fatfs", "fatfs")
         /\ Program[job][4] = Step("Git", "coremark")
         /\ Program[job][5] = Step("Patch_coremark", "coremark")
BY DEF Program, App_setup

LEMMA Steps_apu_p5 ==
  ASSUME job = "apu_p5"
  PROVE  /\ Len(Program[job]) = 7
         /\ Program[job][1] = Step("Marked", "libflac")
         /\ Program[job][2] = Step("Download", "libflac")
         /\ Program[job][3] = Step("Unpack", "libflac")
         /\ Program[job][4] = Step("Marked", "corpus")
         /\ Program[job][5] = Step("Download", "corpus")
         /\ Program[job][6] = Step("Unpack", "corpus")
         /\ Program[job][7] = Step("Validate_notices", "libflac")
BY DEF Program, Setup_apu_p5

LEMMA Steps_apu_p7 ==
  ASSUME job = "apu_p7"
  PROVE  /\ Len(Program[job]) = 5
         /\ Program[job][1] = Step("Git", "tiny")
         /\ Program[job][2] = Step("Note", "tiny")
         /\ Program[job][3] = Step("Git", "mfcc")
         /\ Program[job][4] = Step("Note", "mfcc")
         /\ Program[job][5] = Step("P7_provenance", "tiny")
BY DEF Program, Setup_apu_p7

LEMMA Steps_npu ==
  ASSUME job = "npu"
  PROVE  /\ Len(Program[job]) = 6
         /\ Program[job][1] = Step("Git", "tiny")
         /\ Program[job][2] = Step("Git", "mfcc")
         /\ Program[job][3] = Step("Download_urls", "vww")
         /\ Program[job][4] = Step("Extract_vww_jpegs", "jpeg")
         /\ Program[job][5] = Step("Decode_vww_bins", "bins")
         /\ Program[job][6] = Step("Npu_provenance", "tiny")
BY DEF Program, Setup_npu

LEMMA Steps_hp_linux ==
  ASSUME job = "hp_linux"
  PROVE  /\ Len(Program[job]) = 4
         /\ Program[job][1] = Step("Repair", "sbi")
         /\ Program[job][2] = Step("Git", "sbi")
         /\ Program[job][3] = Step("Repair", "linux")
         /\ Program[job][4] = Step("Git", "linux")
BY DEF Program, Setup_hp_linux

LEMMA Steps_sources ==
  ASSUME job = "sources"
  PROVE  /\ Len(Program[job]) = 2
         /\ Program[job][1] = Step("Git", "os")
         /\ Program[job][2] = Step("Git", "pdk")
BY DEF Program, Setup_sources

LEMMA Steps_gf180 ==
  ASSUME job = "gf180"
  PROVE  /\ Len(Program[job]) = 3
         /\ Program[job][1] = Step("Git", "pdk")
         /\ Program[job][2] = Step("Generate_liberty", "tt")
         /\ Program[job][3] = Step("Generate_liberty", "ss")
BY DEF Program, Pdk_gf180, Pdk_source

LEMMA Steps_sky130 ==
  ASSUME job = "sky130"
  PROVE  /\ Len(Program[job]) = 5
         /\ Program[job][1] = Step("Git", "pdk")
         /\ Program[job][2] = Step("Generate_liberty", "tt")
         /\ Program[job][3] = Step("Download", "sram")
         /\ Program[job][4] = Step("Unpack", "openram")
         /\ Program[job][5] = Step("Generate_liberty", "ss")
BY DEF Program, Pdk_sky130, Pdk_source

LEMMA Steps_ics55 ==
  ASSUME job = "ics55"
  PROVE  /\ Len(Program[job]) = 7
         /\ Program[job][1] = Step("Git", "pdk")
         /\ Program[job][2] = Step("Download", "lib")
         /\ Program[job][3] = Step("Unpack", "lib")
         /\ Program[job][4] = Step("Download", "sram")
         /\ Program[job][5] = Step("Unpack", "sram")
         /\ Program[job][6] = Step("Prepare_sim_model", "cells")
         /\ Program[job][7] = Step("Git", "pll")
BY DEF Program, Pdk_ics55, Pdk_source, Setup_ics55_pll

LEMMA Steps_mpw ==
  ASSUME job = "mpw"
  PROVE  /\ Len(Program[job]) = 4
         /\ Program[job][1] = Step("Download", "serv")
         /\ Program[job][2] = Step("Extract_serv", "serv")
         /\ Program[job][3] = Step("Patch_serv", "serv")
         /\ Program[job][4] = Step("Sync_tree", "core")
BY DEF Program, Prepare_mpw

\* A step works on something of its own kind.
Fits(s) ==
  /\ s.op \in {"Download", "Download_urls"} => s.of \in Archives
  /\ s.op = "Unpack" => s.of \in MarkedTrees
  /\ s.op = "Marked" => s.of \in {"libflac", "corpus"}
  /\ s.op \in {"Extract_fatfs", "Patch_fatfs"} => s.of = "fatfs"
  /\ s.op \in {"Extract_serv", "Patch_serv"} => s.of = "serv"
  /\ s.op = "Sync_tree" => s.of = "core"
  /\ s.op = "Extract_vww_jpegs" => s.of = "jpeg"
  /\ s.op = "Decode_vww_bins" => s.of = "bins"
  /\ s.op \in {"Git", "Repair", "Note"} => s.of \in Repos
  /\ s.op = "Patch_coremark" => s.of = "coremark"
  /\ s.op \in PairOps => s.of \in Pairs

\* Step s of program j at place i.
Placed(j, i, s) ==
  /\ s.op = "Has_environment" => j = "environment" /\ i = 1
  /\ s.op = "Write_stamp" => j = "environment" /\ i = 6
  /\ s.op = "Marked" => j = "apu_p5" /\ i \in {1, 4}
  /\ s.op \in FromArchive \cup {"Write_stamp"} => i > 1
  /\ s.op \in PairOps => j \in PdkJobs
  /\ j \in PdkJobs => IF i = 1 THEN s = Step("Git", "pdk")
                       ELSE s.op # "Repair" /\ (s.op = "Git" <=> s.of = "pll")

\* Step s follows step b.
Follows(b, s) ==
  /\ s.op \in FromArchive => b.op \in {"Download", "Download_urls"} /\ b.of = Source(s.of)
  /\ s.op = "Write_stamp" => b.op = "Pip"
  /\ b.of # "pll"

\* What an earlier step a made is not what a later step b works on.
Apart(a, b) ==
  /\ a.op = "Unpack" /\ b.op = "Unpack" => a.of # b.of /\ (b.of = "lib" => a.of # "sram")
  /\ b.op = "Unpack" /\ b.of = "lib" => a.op \notin PairOps
  /\ a.op = "Extract_fatfs" => b.op # "Extract_fatfs"
  /\ a.op = "Sync_tree" => b.op \notin {"Sync_tree", "Extract_serv"}
  /\ a.op = "Git" /\ b.op \in {"Git", "Repair"} => a.of # b.of
  /\ a.op \in PairOps /\ b.op \in PairOps => a.of # b.of
  /\ a.op = b.op => a.op \notin {"Pip", "Write_stamp", "Write_activation"}

\* A program that works on something has the step that makes it.
Makes(P, s) == s.op \notin {"Download", "Download_urls"} =>
  /\ s.of \in MarkedTrees => \E k \in 1 .. Len(P) : P[k] = Step("Unpack", s.of)
  /\ s.of \in Repos => \E k \in 1 .. Len(P) : P[k] = Step("Git", s.of)
  /\ s.of \in Pairs => s.op \in PairOps
  /\ s.of = "fatfs" => \E k \in 1 .. Len(P) : P[k] = Step("Extract_fatfs", "fatfs")
  /\ s.of = "core" => s.op = "Sync_tree"
  /\ s.of = "venv" => \E k \in 1 .. Len(P) : P[k] = Step("Pip", "venv")

Shaped(j, P) ==
  /\ \A i \in 1 .. Len(P) : Fits(P[i]) /\ Placed(j, i, P[i]) /\ Makes(P, P[i])
  /\ \A i \in 1 .. Len(P) : i > 1 => Follows(P[i - 1], P[i])
  /\ \A i, k \in 1 .. Len(P) : i < k => Apart(P[i], P[k])

LEMMA ProgramShape == ASSUME job \in Jobs PROVE Shaped(job, Program[job])
<1> SUFFICES ASSUME NEW P, P = Program[job] PROVE Shaped(job, P)
  OBVIOUS
<1>0. job \in {"environment", "rtthread", "app", "apu_p5", "apu_p7", "npu", "hp_linux",
               "sources", "gf180", "sky130", "ics55", "mpw"}
  BY JobsAssumption DEF Program
<1>1. CASE job = "environment"
  <2>1. \A i \in 1 .. 8 : Fits(P[i]) /\ Placed(job, i, P[i])
    BY <1>1, Steps_environment
       DEF Fits, Placed, Step, Archives, MarkedTrees, Repos, Pairs, PairOps, PdkJobs, FromArchive
  <2>2. \A i \in 1 .. 8 : Makes(P, P[i])
    <3>1. /\ \E k \in 1 .. Len(P) : P[k] = Step("Unpack", "gcc")
          /\ \E k \in 1 .. Len(P) : P[k] = Step("Pip", "venv")
      BY <1>1, Steps_environment
    <3>2. \A i \in 1 .. 8 : P[i].of \in {"gcc", "venv"}
      BY <1>1, Steps_environment DEF Step
    <3> QED BY <3>1, <3>2 DEF Makes, MarkedTrees, Repos, Pairs
  <2>3. \A i \in 1 .. 8 : i > 1 => Follows(P[i - 1], P[i])
    BY <1>1, Steps_environment DEF Follows, Step, Source, ArchiveOf, FromArchive
  <2>4. \A i, k \in 1 .. 8 : i < k => Apart(P[i], P[k])
    BY <1>1, Steps_environment DEF Apart, Step, PairOps
  <2> QED BY <1>1, <2>1, <2>2, <2>3, <2>4, Steps_environment DEF Shaped
<1>2. CASE job = "rtthread"
  <2>1. \A i \in 1 .. 5 : Fits(P[i]) /\ Placed(job, i, P[i])
    BY <1>2, Steps_rtthread
       DEF Fits, Placed, Step, Archives, MarkedTrees, Repos, Pairs, PairOps, PdkJobs, FromArchive
  <2>2. \A i \in 1 .. 5 : Makes(P, P[i])
    BY <1>2, Steps_rtthread DEF Makes, Step, MarkedTrees, Repos, Pairs, PairOps
  <2>3. \A i \in 1 .. 5 : i > 1 => Follows(P[i - 1], P[i])
    BY <1>2, Steps_rtthread DEF Follows, Step, Source, ArchiveOf, FromArchive
  <2>4. \A i, k \in 1 .. 5 : i < k => Apart(P[i], P[k])
    BY <1>2, Steps_rtthread DEF Apart, Step, PairOps
  <2> QED BY <1>2, <2>1, <2>2, <2>3, <2>4, Steps_rtthread DEF Shaped
<1>3. CASE job = "app"
  <2>1. \A i \in 1 .. 5 : Fits(P[i]) /\ Placed(job, i, P[i])
    BY <1>3, Steps_app
       DEF Fits, Placed, Step, Archives, MarkedTrees, Repos, Pairs, PairOps, PdkJobs, FromArchive
  <2>2. \A i \in 1 .. 5 : Makes(P, P[i])
    BY <1>3, Steps_app DEF Makes, Step, MarkedTrees, Repos, Pairs, PairOps
  <2>3. \A i \in 1 .. 5 : i > 1 => Follows(P[i - 1], P[i])
    BY <1>3, Steps_app DEF Follows, Step, Source, ArchiveOf, FromArchive
  <2>4. \A i, k \in 1 .. 5 : i < k => Apart(P[i], P[k])
    BY <1>3, Steps_app DEF Apart, Step, PairOps
  <2> QED BY <1>3, <2>1, <2>2, <2>3, <2>4, Steps_app DEF Shaped
<1>4. CASE job = "apu_p5"
  <2>1. \A i \in 1 .. 7 : Fits(P[i]) /\ Placed(job, i, P[i])
    BY <1>4, Steps_apu_p5
       DEF Fits, Placed, Step, Archives, MarkedTrees, Repos, Pairs, PairOps, PdkJobs, FromArchive
  <2>2. \A i \in 1 .. 7 : Makes(P, P[i])
    <3>1. /\ \E k \in 1 .. Len(P) : P[k] = Step("Unpack", "libflac")
          /\ \E k \in 1 .. Len(P) : P[k] = Step("Unpack", "corpus")
      BY <1>4, Steps_apu_p5
    <3>2. \A i \in 1 .. 7 : P[i].of \in {"libflac", "corpus"}
      BY <1>4, Steps_apu_p5 DEF Step
    <3> QED BY <3>1, <3>2 DEF Makes, MarkedTrees, Repos, Pairs
  <2>3. \A i \in 1 .. 7 : i > 1 => Follows(P[i - 1], P[i])
    BY <1>4, Steps_apu_p5 DEF Follows, Step, Source, ArchiveOf, FromArchive
  <2>4. \A i, k \in 1 .. 7 : i < k => Apart(P[i], P[k])
    BY <1>4, Steps_apu_p5 DEF Apart, Step, PairOps
  <2> QED BY <1>4, <2>1, <2>2, <2>3, <2>4, Steps_apu_p5 DEF Shaped
<1>5. CASE job = "apu_p7"
  <2>1. \A i \in 1 .. 5 : Fits(P[i]) /\ Placed(job, i, P[i])
    BY <1>5, Steps_apu_p7
       DEF Fits, Placed, Step, Archives, MarkedTrees, Repos, Pairs, PairOps, PdkJobs, FromArchive
  <2>2. \A i \in 1 .. 5 : Makes(P, P[i])
    BY <1>5, Steps_apu_p7 DEF Makes, Step, MarkedTrees, Repos, Pairs, PairOps
  <2>3. \A i \in 1 .. 5 : i > 1 => Follows(P[i - 1], P[i])
    BY <1>5, Steps_apu_p7 DEF Follows, Step, Source, ArchiveOf, FromArchive
  <2>4. \A i, k \in 1 .. 5 : i < k => Apart(P[i], P[k])
    BY <1>5, Steps_apu_p7 DEF Apart, Step, PairOps
  <2> QED BY <1>5, <2>1, <2>2, <2>3, <2>4, Steps_apu_p7 DEF Shaped
<1>6. CASE job = "npu"
  <2>1. \A i \in 1 .. 6 : Fits(P[i]) /\ Placed(job, i, P[i])
    BY <1>6, Steps_npu
       DEF Fits, Placed, Step, Archives, MarkedTrees, Repos, Pairs, PairOps, PdkJobs, FromArchive
  <2>2. \A i \in 1 .. 6 : Makes(P, P[i])
    BY <1>6, Steps_npu DEF Makes, Step, MarkedTrees, Repos, Pairs, PairOps
  <2>3. \A i \in 1 .. 6 : i > 1 => Follows(P[i - 1], P[i])
    BY <1>6, Steps_npu DEF Follows, Step, Source, ArchiveOf, FromArchive
  <2>4. \A i, k \in 1 .. 6 : i < k => Apart(P[i], P[k])
    BY <1>6, Steps_npu DEF Apart, Step, PairOps
  <2> QED BY <1>6, <2>1, <2>2, <2>3, <2>4, Steps_npu DEF Shaped
<1>7. CASE job = "hp_linux"
  <2>1. \A i \in 1 .. 4 : Fits(P[i]) /\ Placed(job, i, P[i])
    BY <1>7, Steps_hp_linux
       DEF Fits, Placed, Step, Archives, MarkedTrees, Repos, Pairs, PairOps, PdkJobs, FromArchive
  <2>2. \A i \in 1 .. 4 : Makes(P, P[i])
    BY <1>7, Steps_hp_linux DEF Makes, Step, MarkedTrees, Repos, Pairs, PairOps
  <2>3. \A i \in 1 .. 4 : i > 1 => Follows(P[i - 1], P[i])
    BY <1>7, Steps_hp_linux DEF Follows, Step, Source, ArchiveOf, FromArchive
  <2>4. \A i, k \in 1 .. 4 : i < k => Apart(P[i], P[k])
    BY <1>7, Steps_hp_linux DEF Apart, Step, PairOps
  <2> QED BY <1>7, <2>1, <2>2, <2>3, <2>4, Steps_hp_linux DEF Shaped
<1>8. CASE job = "sources"
  <2>1. \A i \in 1 .. 2 : Fits(P[i]) /\ Placed(job, i, P[i])
    BY <1>8, Steps_sources
       DEF Fits, Placed, Step, Archives, MarkedTrees, Repos, Pairs, PairOps, PdkJobs, FromArchive
  <2>2. \A i \in 1 .. 2 : Makes(P, P[i])
    BY <1>8, Steps_sources DEF Makes, Step, MarkedTrees, Repos, Pairs, PairOps
  <2>3. \A i \in 1 .. 2 : i > 1 => Follows(P[i - 1], P[i])
    BY <1>8, Steps_sources DEF Follows, Step, Source, ArchiveOf, FromArchive
  <2>4. \A i, k \in 1 .. 2 : i < k => Apart(P[i], P[k])
    BY <1>8, Steps_sources DEF Apart, Step, PairOps
  <2> QED BY <1>8, <2>1, <2>2, <2>3, <2>4, Steps_sources DEF Shaped
<1>9. CASE job = "gf180"
  <2>1. \A i \in 1 .. 3 : Fits(P[i]) /\ Placed(job, i, P[i])
    BY <1>9, Steps_gf180
       DEF Fits, Placed, Step, Archives, MarkedTrees, Repos, Pairs, PairOps, PdkJobs, FromArchive
  <2>2. \A i \in 1 .. 3 : Makes(P, P[i])
    BY <1>9, Steps_gf180 DEF Makes, Step, MarkedTrees, Repos, Pairs, PairOps
  <2>3. \A i \in 1 .. 3 : i > 1 => Follows(P[i - 1], P[i])
    BY <1>9, Steps_gf180 DEF Follows, Step, Source, ArchiveOf, FromArchive
  <2>4. \A i, k \in 1 .. 3 : i < k => Apart(P[i], P[k])
    BY <1>9, Steps_gf180 DEF Apart, Step, PairOps
  <2> QED BY <1>9, <2>1, <2>2, <2>3, <2>4, Steps_gf180 DEF Shaped
<1>10. CASE job = "sky130"
  <2>1. \A i \in 1 .. 5 : Fits(P[i]) /\ Placed(job, i, P[i])
    BY <1>10, Steps_sky130
       DEF Fits, Placed, Step, Archives, MarkedTrees, Repos, Pairs, PairOps, PdkJobs, FromArchive
  <2>2. \A i \in 1 .. 5 : Makes(P, P[i])
    BY <1>10, Steps_sky130 DEF Makes, Step, MarkedTrees, Repos, Pairs, PairOps
  <2>3. \A i \in 1 .. 5 : i > 1 => Follows(P[i - 1], P[i])
    BY <1>10, Steps_sky130 DEF Follows, Step, Source, ArchiveOf, FromArchive
  <2>4. \A i, k \in 1 .. 5 : i < k => Apart(P[i], P[k])
    BY <1>10, Steps_sky130 DEF Apart, Step, PairOps
  <2> QED BY <1>10, <2>1, <2>2, <2>3, <2>4, Steps_sky130 DEF Shaped
<1>11. CASE job = "ics55"
  <2>1. \A i \in 1 .. 7 : Fits(P[i]) /\ Placed(job, i, P[i])
    BY <1>11, Steps_ics55
       DEF Fits, Placed, Step, Archives, MarkedTrees, Repos, Pairs, PairOps, PdkJobs, FromArchive
  <2>2. \A i \in 1 .. 7 : Makes(P, P[i])
    BY <1>11, Steps_ics55 DEF Makes, Step, MarkedTrees, Repos, Pairs, PairOps
  <2>3. \A i \in 1 .. 7 : i > 1 => Follows(P[i - 1], P[i])
    BY <1>11, Steps_ics55 DEF Follows, Step, Source, ArchiveOf, FromArchive
  <2>4. \A i, k \in 1 .. 7 : i < k => Apart(P[i], P[k])
    BY <1>11, Steps_ics55 DEF Apart, Step, PairOps
  <2> QED BY <1>11, <2>1, <2>2, <2>3, <2>4, Steps_ics55 DEF Shaped
<1>12. CASE job = "mpw"
  <2>1. \A i \in 1 .. 4 : Fits(P[i]) /\ Placed(job, i, P[i])
    BY <1>12, Steps_mpw
       DEF Fits, Placed, Step, Archives, MarkedTrees, Repos, Pairs, PairOps, PdkJobs, FromArchive
  <2>2. \A i \in 1 .. 4 : Makes(P, P[i])
    BY <1>12, Steps_mpw DEF Makes, Step, MarkedTrees, Repos, Pairs, PairOps
  <2>3. \A i \in 1 .. 4 : i > 1 => Follows(P[i - 1], P[i])
    BY <1>12, Steps_mpw DEF Follows, Step, Source, ArchiveOf, FromArchive
  <2>4. \A i, k \in 1 .. 4 : i < k => Apart(P[i], P[k])
    BY <1>12, Steps_mpw DEF Apart, Step, PairOps
  <2> QED BY <1>12, <2>1, <2>2, <2>3, <2>4, Steps_mpw DEF Shaped
<1> QED BY <1>0, <1>1, <1>2, <1>3, <1>4, <1>5, <1>6, <1>7, <1>8, <1>9, <1>10, <1>11, <1>12

------------------------------------------------------------------------------
(* Types and control.                                                      *)
IsProc(p) ==
  {"status", "pc", "at", "want", "buffer", "tries", "steady", "notes", "rev", "update"}
    \subseteq DOMAIN p

\* What a program keeps of a download, or of a file it writes.
Buffers == {b \in Seq(0 .. Wrong) : Len(b) <= Size}

ProcType(p) ==
  /\ IsProc(p)
  /\ p.status \in {"idle", "running", "ok", "failed"} /\ p.pc \in Nat \ {0}
  /\ p.want \in Versions /\ p.rev \in Versions /\ p.update \in BOOLEAN /\ p.steady \in BOOLEAN
  /\ p.buffer \in Buffers /\ p.tries \in Nat /\ p.notes \in [Repos -> 0 .. MaxLock]

ProcOk == /\ job \in Jobs /\ lock \in Versions
          /\ ProcType(proc) /\ proc.pc <= Len(Program[job])

\* What a step of the program does to the control: it stays, goes on n steps further, or
\* ends the run.
SameRun  == /\ proc'.status = proc.status /\ proc'.pc = proc.pc /\ proc'.want = proc.want
            /\ proc'.rev = proc.rev /\ proc'.update = proc.update /\ proc'.steady = proc.steady
Stays    == SameRun /\ torn' = torn
Moves(n) ==
  /\ proc'.at = "start" /\ proc'.buffer = <<>> /\ proc'.tries = 0
  /\ proc'.update = proc.update /\ proc'.steady = proc.steady
  /\ IF proc.pc + n > Len(Program[job])
     THEN proc'.status = "ok" /\ proc'.pc = 1 /\ proc'.want = proc.want /\ proc'.rev = proc.rev
     ELSE /\ proc'.status = proc.status /\ proc'.pc = proc.pc + n
          /\ proc'.want = IF Reads(proc.pc + n) THEN lock ELSE proc.want
          /\ proc'.rev = IF Reads(proc.pc + n) /\ Program[job][proc.pc + n].op = "Git"
                         THEN lock ELSE proc.rev
Advances(n) == Moves(n) /\ torn' = torn
Fails    == /\ proc'.status = "failed" /\ proc'.at = "start" /\ proc'.steady = proc.steady
            /\ proc'.buffer = <<>>
            /\ proc'.want = proc.want /\ proc'.rev = proc.rev /\ torn' = TRUE
Control  == \/ Stays \/ Advances(1) \/ Fails
            \/ Here.op = "Marked" /\ Advances(3)
            \/ Here.op = "Has_environment" /\ Advances(6)
ProcTyped == ProcType(proc) /\ proc.pc <= Len(Program[job])

LEMMA ProgramLen == ASSUME job \in Jobs PROVE Len(Program[job]) \in Nat \ {0}
<1>0. job \in {"environment", "rtthread", "app", "apu_p5", "apu_p7", "npu", "hp_linux",
               "sources", "gf180", "sky130", "ics55", "mpw"}
  BY JobsAssumption DEF Program
<1> QED BY <1>0, Steps_environment, Steps_rtthread, Steps_app, Steps_apu_p5, Steps_apu_p7,
  Steps_npu, Steps_hp_linux, Steps_sources, Steps_gf180, Steps_sky130, Steps_ics55, Steps_mpw

LEMMA NoPieces == <<>> \in Buffers
BY ProvisionAssumption DEF Buffers

LEMMA EnteringTyped ==
  ASSUME ProcOk, NEW n \in Nat \ {0}
  PROVE  LET p == Entering(proc, proc.pc + n)
         IN  /\ ProcType(p) /\ p.pc <= Len(Program[job])
             /\ p.at = "start" /\ p.update = proc.update /\ p.steady = proc.steady
             /\ p.notes = proc.notes /\ p.buffer = <<>> /\ p.tries = 0
             /\ IF proc.pc + n > Len(Program[job])
                THEN p.status = "ok" /\ p.pc = 1 /\ p.want = proc.want /\ p.rev = proc.rev
                ELSE /\ p.status = proc.status /\ p.pc = proc.pc + n
                     /\ p.want = IF Reads(proc.pc + n) THEN lock ELSE proc.want
                     /\ p.rev = IF Reads(proc.pc + n) /\ Program[job][proc.pc + n].op = "Git"
                                THEN lock ELSE proc.rev
<1> DEFINE p == Entering(proc, proc.pc + n)
           k == proc.pc + n
           L == Len(Program[job])
           read == Reads(k)
           git == Program[job][k].op = "Git"
<1>0. L \in Nat \ {0} /\ k \in Nat \ {0} /\ proc.pc \in Nat
  BY ProgramLen DEF ProcOk, ProcType
<1>1. CASE k > L
  <2>1. p = [proc EXCEPT !.status = "ok", !.pc = 1, !.at = "start", !.buffer = <<>>, !.tries = 0]
    BY <1>1 DEF Entering
  <2> HIDE DEF p
  <2>2. /\ ProcType(p) /\ p.at = "start" /\ p.update = proc.update /\ p.steady = proc.steady
        /\ p.notes = proc.notes /\ p.buffer = <<>> /\ p.tries = 0
        /\ p.status = "ok" /\ p.pc = 1 /\ p.want = proc.want /\ p.rev = proc.rev
    BY <2>1, NoPieces DEF ProcOk, ProcType, IsProc
  <2>3. 1 <= L
    BY <1>0
  <2> QED BY <1>1, <2>2, <2>3 DEF p, k, L
<1>2. CASE ~(k > L)
  <2>1. p = [proc EXCEPT !.pc = k, !.at = "start", !.buffer = <<>>, !.tries = 0,
                         !.want = IF read THEN lock ELSE @,
                         !.rev = IF read /\ git THEN lock ELSE @]
    BY <1>2 DEF Entering
  <2>2. k <= L
    BY <1>0, <1>2
  <2> HIDE DEF p, k, read, git, L
  <2>3. /\ ProcType(p) /\ p.at = "start" /\ p.update = proc.update /\ p.steady = proc.steady
        /\ p.notes = proc.notes /\ p.buffer = <<>> /\ p.tries = 0
        /\ p.status = proc.status /\ p.pc = k
        /\ p.want = (IF read THEN lock ELSE proc.want)
        /\ p.rev = IF read /\ git THEN lock ELSE proc.rev
    BY <1>0, <2>1, NoPieces DEF ProcOk, ProcType, IsProc
  <2> QED BY <1>2, <2>2, <2>3 DEF p, k, L, read, git
<1> QED BY <1>1, <1>2

LEMMA JumpControl ==
  ASSUME ProcOk, NEW n \in Nat \ {0}, Jump(n), job' = job
  PROVE  ProcTyped' /\ Advances(n)
BY EnteringTyped DEF Jump, Advances, Moves, ProcTyped

LEMMA GoControl ==
  ASSUME ProcOk, NEW at, Go(at), job' = job
  PROVE  ProcTyped' /\ Stays /\ proc'.at = at /\ proc'.buffer = proc.buffer
BY DEF ProcOk, ProcType, IsProc, Go, Stays, SameRun, ProcTyped

LEMMA FailControl ==
  ASSUME ProcOk, Fail, job' = job
  PROVE  ProcTyped' /\ Fails
BY ProgramLen, NoPieces DEF ProcOk, ProcType, IsProc, Fail, Fails, ProcTyped

LEMMA SameControl ==
  ASSUME ProcOk, UNCHANGED <<proc, torn, job>>
  PROVE  ProcTyped' /\ Stays
BY DEF ProcOk, Stays, SameRun, ProcTyped

\* The fields that count the work of a step.
LEMMA WorkControl ==
  ASSUME ProcOk, NEW at, NEW b \in Buffers, NEW n \in Nat, torn' = torn, job' = job,
         proc' = [proc EXCEPT !.at = at, !.buffer = b, !.tries = n]
  PROVE  ProcTyped' /\ Stays /\ proc'.at = at /\ proc'.buffer = b /\ proc'.tries = n
BY DEF ProcOk, ProcType, IsProc, Stays, SameRun, ProcTyped

------------------------------------------------------------------------------
(* What each step writes.                                                  *)

LEMMA FrameKept == ASSUME Continue \/ Cut PROVE UNCHANGED <<job, lock, past, reverted>>
BY DEF Continue, Cut, Download_file, Request, Range_refused, Receive, Verify, Replace,
   Ensure_git_repo, Git_init, Git_checkout, Git_submodule, Repair_incomplete_checkout,
   Marked, Unpack, Remove_old, Replace_tree, Validate_notices, Extract_fatfs, Remove_fatfs,
   Remove, Extract_serv, Extractall, Writes_file, Patch, Sync_tree, Remove_core, Copytree,
   Patch_coremark, Extract_vww_jpegs, Write_jpeg, Decode_vww_bins, Write_bin, Note,
   P7_provenance, Npu_provenance, Generate_liberty, Prepare_sim_model, Write_revision,
   Has_environment, Create_virtualenv, Ensure_pip, Pip_install, Pip_ends, Write_stamp,
   Write_activation, Check, Frame

LEMMA DownloadsWrite ==
  ASSUME Download_file \/ Request \/ Range_refused \/ Receive \/ Verify \/ Replace \/ Cut
  PROVE  /\ UNCHANGED <<tree, repo, pair, env, record>>
         /\ archive' = archive \/ Replace
         /\ partial' = partial \/ Request \/ Receive \/ Verify \/ Replace
BY DEF Download_file, Request, Range_refused, Receive, Verify, Replace, Cut, disk

LEMMA GitWrites ==
  ASSUME Ensure_git_repo \/ Git_init \/ Git_checkout \/ Git_submodule \/ Repair_incomplete_checkout
         \/ Patch_coremark
  PROVE  /\ UNCHANGED <<archive, partial, tree, pair, env, record>>
         /\ repo' = repo \/ Git_init \/ Git_checkout \/ Git_submodule
                         \/ Repair_incomplete_checkout \/ Patch_coremark
BY DEF Ensure_git_repo, Git_init, Git_checkout, Git_submodule, Repair_incomplete_checkout,
   Patch_coremark, SetRepo, disk

LEMMA TreesWrite ==
  ASSUME \/ Marked \/ Unpack \/ Remove_old \/ Replace_tree \/ Validate_notices
         \/ Extract_fatfs \/ Remove_fatfs \/ Extract_serv \/ Extractall \/ Patch
         \/ Sync_tree \/ Remove_core \/ Copytree
         \/ Extract_vww_jpegs \/ Write_jpeg \/ Decode_vww_bins \/ Write_bin
  PROVE  /\ UNCHANGED <<archive, partial, repo, env, record>>
         /\ pair' = pair \/ Remove_old \/ Remove_fatfs \/ Remove_core
         /\ \/ tree' = tree
            \/ Remove_old \/ Replace_tree \/ Remove_fatfs \/ Extractall \/ Patch \/ Remove_core
            \/ Copytree \/ Write_jpeg \/ Write_bin
BY DEF Marked, Unpack, Remove_old, Replace_tree, Validate_notices, Extract_fatfs, Remove_fatfs,
   Remove, Extract_serv, Extractall, Writes_file, Patch, Sync_tree, Remove_core, Copytree,
   Extract_vww_jpegs, Write_jpeg, Write_bytes, Decode_vww_bins, Write_bin, SetTree, disk

LEMMA OthersWrite ==
  ASSUME \/ Note \/ P7_provenance \/ Npu_provenance
         \/ Generate_liberty \/ Prepare_sim_model \/ Write_revision
         \/ Has_environment \/ Create_virtualenv \/ Ensure_pip \/ Pip_install \/ Pip_ends
         \/ Write_stamp \/ Write_activation \/ Check
  PROVE  /\ UNCHANGED <<archive, partial, tree, repo>>
         /\ record' = record \/ P7_provenance \/ Npu_provenance
         /\ pair' = pair \/ Generate_liberty \/ Prepare_sim_model \/ Write_revision
         /\ env' = env \/ Create_virtualenv \/ Ensure_pip \/ Pip_install \/ Pip_ends
                       \/ Write_stamp \/ Write_activation
BY DEF Note, P7_provenance, Npu_provenance, Generate_liberty, Prepare_sim_model, Write_revision,
   Has_environment, Create_virtualenv, Ensure_pip, Pip_install, Pip_ends, Write_stamp,
   Write_activation, Check, SetPair, SetEnv, disk

\* The steps that change each part of the disk.
LEMMA Writers ==
  ASSUME Continue \/ Cut
  PROVE  /\ archive' = archive \/ Replace
         /\ partial' = partial \/ Request \/ Receive \/ Verify \/ Replace
         /\ \/ repo' = repo
            \/ Git_init \/ Git_checkout \/ Git_submodule \/ Repair_incomplete_checkout
            \/ Patch_coremark
         /\ \/ tree' = tree
            \/ Remove_old \/ Replace_tree \/ Remove_fatfs \/ Extractall \/ Patch \/ Remove_core
            \/ Copytree \/ Write_jpeg \/ Write_bin
         /\ \/ pair' = pair
            \/ Remove_old \/ Remove_fatfs \/ Remove_core
            \/ Generate_liberty \/ Prepare_sim_model \/ Write_revision
         /\ \/ env' = env
            \/ Create_virtualenv \/ Ensure_pip \/ Pip_install \/ Pip_ends
            \/ Write_stamp \/ Write_activation
         /\ record' = record \/ P7_provenance \/ Npu_provenance
BY DownloadsWrite, GitWrites, TreesWrite, OthersWrite DEF Continue

------------------------------------------------------------------------------
(* Where each step goes.                                                   *)

LEMMA StepHere ==
  ASSUME ProcOk
  PROVE  Fits(Here) /\ Placed(job, proc.pc, Here) /\ proc.pc \in 1 .. Len(Program[job])
<1>1. proc.pc \in 1 .. Len(Program[job])
  BY ProgramLen DEF ProcOk, ProcType
<1> QED BY <1>1, ProgramShape DEF Shaped, Here, ProcOk

LEMMA PlainControl ==
  ASSUME ProcOk, job' = job, Fail \/ Jump(1) \/ (\E at : Go(at)) \/ UNCHANGED <<proc, torn>>
  PROVE  Control /\ ProcTyped'
BY JumpControl, GoControl, FailControl, SameControl DEF Control

LEMMA GitControl ==
  ASSUME ProcOk, job' = job,
         \/ Ensure_git_repo \/ Git_init \/ Git_checkout \/ Git_submodule
         \/ Repair_incomplete_checkout \/ Patch_coremark
  PROVE  Control /\ ProcTyped'
<1>1. Fail \/ Jump(1) \/ (\E at : Go(at)) \/ UNCHANGED <<proc, torn>>
  BY DEF Ensure_git_repo, Git_init, Git_checkout, Git_submodule, Repair_incomplete_checkout,
     Patch_coremark
<1> QED BY <1>1, PlainControl

LEMMA TreeControl ==
  ASSUME ProcOk, job' = job,
         \/ Unpack \/ Remove_old \/ Replace_tree \/ Validate_notices
         \/ Extract_fatfs \/ Remove_fatfs \/ Extract_serv \/ Extractall \/ Patch
         \/ Sync_tree \/ Remove_core \/ Copytree
  PROVE  Control /\ ProcTyped'
<1>1. Fail \/ Jump(1) \/ (\E at : Go(at)) \/ UNCHANGED <<proc, torn>>
  BY DEF Unpack, Remove_old, Replace_tree, Validate_notices, Install, Install_archive,
     Prepare_sky130_sram, Prepare_ics55_liberty, Extract_fatfs, Remove_fatfs, Remove,
     Extract_serv, Extractall, Writes_file, Patch, Sync_tree, Remove_core, Copytree, Go
<1> QED BY <1>1, PlainControl

LEMMA OtherControl ==
  ASSUME ProcOk, job' = job,
         \/ P7_provenance \/ Npu_provenance
         \/ Generate_liberty \/ Prepare_sim_model \/ Write_revision
         \/ Create_virtualenv \/ Ensure_pip \/ Pip_install \/ Pip_ends
         \/ Write_stamp \/ Write_activation \/ Check
  PROVE  Control /\ ProcTyped'
<1>1. Fail \/ Jump(1) \/ (\E at : Go(at)) \/ UNCHANGED <<proc, torn>>
  BY DEF P7_provenance, Npu_provenance, Generate_liberty, Prepare_sim_model, Write_revision,
     Create_virtualenv, Ensure_pip, Pip_install, Pip_ends, Write_stamp, Write_activation, Check
<1> QED BY <1>1, PlainControl

LEMMA LongJumps == ASSUME ProcOk, job' = job, Marked \/ Has_environment PROVE Control /\ ProcTyped'
<1>1. CASE Marked
  <2>1. Here.op = "Marked" /\ (Jump(3) \/ Jump(1))
    BY <1>1 DEF Marked, At
  <2> QED BY <2>1, JumpControl DEF Control
<1>2. CASE Has_environment
  <2>1. Here.op = "Has_environment" /\ (Jump(6) \/ Jump(1))
    BY <1>2 DEF Has_environment, At
  <2> QED BY <2>1, JumpControl DEF Control
<1> QED BY <1>1, <1>2

LEMMA NoteControl == ASSUME ProcOk, job' = job, Note PROVE Control /\ ProcTyped'
<1> DEFINE p == Entering(proc, proc.pc + 1)
<1>1. proc' = [p EXCEPT !.notes[Of] = Want] /\ torn' = torn
  BY DEF Note
<1>2. /\ ProcType(p) /\ p.pc <= Len(Program[job])
      /\ p.at = "start" /\ p.update = proc.update /\ p.steady = proc.steady
      /\ p.buffer = <<>> /\ p.tries = 0
      /\ IF proc.pc + 1 > Len(Program[job])
         THEN p.status = "ok" /\ p.pc = 1 /\ p.want = proc.want /\ p.rev = proc.rev
         ELSE /\ p.status = proc.status /\ p.pc = proc.pc + 1
              /\ p.want = IF Reads(proc.pc + 1) THEN lock ELSE proc.want
              /\ p.rev = IF Reads(proc.pc + 1) /\ Program[job][proc.pc + 1].op = "Git"
                         THEN lock ELSE proc.rev
  BY EnteringTyped
<1> HIDE DEF p
<1>3. Want \in 0 .. MaxLock
  BY ProvisionAssumption DEF ProcOk, ProcType, Want, Versions
<1>4. [p.notes EXCEPT ![Of] = Want] \in [Repos -> 0 .. MaxLock]
  BY <1>2, <1>3 DEF ProcType
<1>5. /\ IsProc(proc') /\ proc'.notes = [p.notes EXCEPT ![Of] = Want]
      /\ proc'.at = p.at /\ proc'.update = p.update /\ proc'.steady = p.steady
      /\ proc'.buffer = p.buffer /\ proc'.status = p.status /\ proc'.pc = p.pc
      /\ proc'.want = p.want /\ proc'.rev = p.rev /\ proc'.tries = p.tries
  BY <1>1, <1>2 DEF ProcType, IsProc
<1>6. ProcTyped'
  BY <1>2, <1>4, <1>5 DEF ProcType, ProcTyped
<1>7. Advances(1)
  BY <1>1, <1>2, <1>5 DEF Advances, Moves
<1> QED BY <1>6, <1>7 DEF Control

------------------------------------------------------------------------------
(* Types.                                                                  *)

ArchivesVerified == archive \in [Archives -> {<<>>} \cup {Whole(v) : v \in Versions}]

Partials == /\ partial \in [Archives -> Buffers]
            /\ \A a \in Archives : a \notin Resume => partial[a] = <<>>
TreeType == [there : BOOLEAN, mark : 0 .. MaxLock, files : [Pieces -> 0 .. Wrong]]
TreesOk  == /\ tree \in [Places -> TreeType]
            /\ \A p \in Places : ~tree[p].there => tree[p] = Nothing
RepoType == [git : BOOLEAN, head : 0 .. MaxLock, sub : 0 .. MaxLock, patched : 0 .. 2]
PairType == [out : 0 .. MaxLock, rev : 0 .. MaxLock]
EnvType  == [python : BOOLEAN, pip : BOOLEAN, packages : 0 .. Broken, stamp : 0 .. MaxLock,
             active : 0 .. MaxLock]
DiskOk   == /\ ArchivesVerified /\ Partials /\ TreesOk
            /\ repo \in [Repos -> RepoType] /\ pair \in [Pairs -> PairType] /\ env \in EnvType
            /\ record \in [Repos -> 0 .. MaxLock]

\* A step that works with an archive works with the one its download verified.
Downloaded == Running /\ Here.op \in FromArchive => archive[Source(Of)] = Whole(Want)

\* What a download has received so far is in the partial file it can be resumed from, and it
\* is moved into place only as Verify accepted it.
Received == Downloads =>
  /\ proc.at = "body" /\ Of \in Resume => partial[Of] = proc.buffer
  /\ proc.at = "replace" => proc.buffer = Whole(Want)

\* The inputs of the NPU are written one after the other; the one being written is open.
Corpus  == Running /\ Here.op \in {"Extract_vww_jpegs", "Decode_vww_bins"}
Inputs  == Corpus =>
  /\ proc.at = "write" => proc.tries \in Pieces /\ (proc.buffer # <<>> => T.there)
  /\ proc.at # "write" => /\ proc.buffer = <<>>
                          /\ Here.op = "Decode_vww_bins" => proc.tries \in {0, 1}

Types == /\ ProcOk /\ DiskOk
         /\ Downloaded /\ Received /\ Inputs

LEMMA PlaceOf == ASSUME ProcOk, NEW t \in Trees PROVE Place(t) \in Places
BY DEF Place, Places, ProcOk, ProcType, Want

LEMMA SourceOf ==
  ASSUME ProcOk, Here.op \in FromArchive
  PROVE  Source(Of) \in Archives /\ Of \in Trees
<1>1. Fits(Here)
  BY StepHere
<1> QED BY <1>1 DEF Fits, FromArchive, Of, Source, ArchiveOf, Archives, Trees, MarkedTrees

LEMMA WholeIs ==
  ASSUME NEW v \in Versions
  PROVE  Whole(v) \in Buffers /\ Len(Whole(v)) = Size /\ Whole(v)[1] = v /\ Whole(v) # <<>>
BY ProvisionAssumption DEF Whole, Buffers, Versions, Wrong

LEMMA AttemptControl ==
  ASSUME ProcOk, job' = job, Attempt_failed
  PROVE  /\ Stays \/ Fails
         /\ ProcTyped' /\ proc'.at \in {"request", "start"} /\ proc'.buffer = <<>>
<1>1. CASE Fail
  BY <1>1, FailControl DEF Fails
<1>2. CASE proc' = [proc EXCEPT !.at = "request", !.buffer = <<>>, !.tries = @ + 1] /\ torn' = torn
  <2>1. proc.tries + 1 \in Nat
    BY DEF ProcOk, ProcType
  <2> QED BY <1>2, <2>1, NoPieces, WorkControl
<1> QED BY <1>1, <1>2 DEF Attempt_failed

LEMMA DownloadOf == ASSUME ProcOk, Downloads PROVE Of \in Archives
BY StepHere DEF Downloads, Fits, Of

LEMMA RequestControl ==
  ASSUME Types, job' = job, Request
  PROVE  /\ Stays /\ ProcTyped' /\ proc'.at = "body"
         /\ proc'.buffer = <<>> \/ (Of \in Resume /\ proc'.buffer = partial[Of])
         /\ Of \in Archives /\ proc'.buffer \in Buffers
         /\ Of \in Resume => partial' = [partial EXCEPT ![Of] = proc'.buffer]
         /\ Of \notin Resume => partial' = partial
<1>0. ProcOk /\ Partials /\ Of \in Archives
  BY DownloadOf DEF Types, DiskOk, Request
<1>1. PICK reply \in {<<>>, IF Of \in Resume THEN partial[Of] ELSE <<>>} :
        /\ proc' = [proc EXCEPT !.at = "body", !.buffer = reply]
        /\ partial' = IF Of \in Resume THEN [partial EXCEPT ![Of] = reply] ELSE partial
  BY DEF Request
<1>2. reply \in Buffers /\ (Of \notin Resume => reply = <<>>)
  BY <1>0, NoPieces, ProvisionAssumption DEF Partials
<1>3. /\ Stays /\ ProcTyped' /\ proc'.at = "body" /\ proc'.buffer = reply
  BY <1>0, <1>1, <1>2 DEF Request, ProcOk, ProcType, IsProc, Stays, SameRun, ProcTyped
<1> QED BY <1>0, <1>1, <1>2, <1>3

LEMMA ReceiveControl ==
  ASSUME Types, job' = job, Receive
  PROVE  /\ Stays /\ ProcTyped' /\ proc'.at = "body" /\ proc.at = "body"
         /\ Of \in Archives /\ proc'.buffer \in Buffers
         /\ \E v \in Versions \cup {Wrong} :
              /\ proc'.buffer = Append(proc.buffer, v)
              /\ partial' = IF Of \in Resume THEN [partial EXCEPT ![Of] = Append(@, v)] ELSE partial
<1>0. ProcOk /\ Of \in Archives /\ proc.buffer \in Buffers /\ Want \in Versions
  BY DownloadOf DEF Types, Receive, ProcOk, ProcType, Want
<1>1. PICK v \in {Want, Wrong} :
        /\ proc' = [proc EXCEPT !.buffer = Append(@, v)]
        /\ partial' = IF Of \in Resume THEN [partial EXCEPT ![Of] = Append(@, v)] ELSE partial
  BY DEF Receive
<1>2. v \in 0 .. Wrong
  BY <1>0, ProvisionAssumption DEF Versions, Wrong
<1>3. Append(proc.buffer, v) \in Buffers
  <2>1. proc.buffer \in Seq(0 .. Wrong) /\ Len(proc.buffer) < Size /\ Size \in Nat
    BY <1>0, ProvisionAssumption DEF Receive, Buffers
  <2>2. /\ Append(proc.buffer, v) \in Seq(0 .. Wrong)
        /\ Len(Append(proc.buffer, v)) = Len(proc.buffer) + 1 /\ Len(proc.buffer) \in Nat
    BY <1>2, <2>1
  <2> QED BY <2>1, <2>2 DEF Buffers
<1>4. /\ Stays /\ ProcTyped' /\ proc'.at = proc.at /\ proc'.buffer = Append(proc.buffer, v)
  BY <1>0, <1>1, <1>3 DEF Receive, ProcOk, ProcType, IsProc, Stays, SameRun, ProcTyped
<1>5. v \in Versions \cup {Wrong}
  BY <1>0
<1> QED BY <1>0, <1>1, <1>3, <1>4, <1>5 DEF Receive

LEMMA DownloadControl ==
  ASSUME Types, job' = job,
         Download_file \/ Request \/ Range_refused \/ Receive \/ Verify \/ Replace \/ Cut
  PROVE  Control /\ ProcTyped'
<1>0. ProcOk
  BY DEF Types
<1>1. CASE Request \/ Receive
  BY <1>1, RequestControl, ReceiveControl DEF Control
<1>2. CASE Attempt_failed
  BY <1>0, <1>2, AttemptControl DEF Control
<1>3. CASE Fail \/ Jump(1) \/ (\E at : Go(at))
  BY <1>0, <1>3, PlainControl
<1> QED BY <1>1, <1>2, <1>3 DEF Download_file, Range_refused, Verify, Replace, Cut

LEMMA Jpegs ==
  ASSUME Types, Here.op = "Extract_vww_jpegs", Running
  PROVE  archive["vww"][1] \in Versions
<1>1. archive[Source(Of)] = Whole(Want) /\ Of = "jpeg" /\ Want \in Versions
  BY StepHere DEF Types, Downloaded, FromArchive, Fits, Of, ProcOk, ProcType, Want
<1> QED BY <1>1, WholeIs DEF Source

LEMMA Bins == ASSUME TreesOk, NEW i \in Pieces PROVE Jpeg.files[i] \in 0 .. Wrong
<1>1. <<"jpeg", 0>> \in Places
  BY DEF Places, Trees
<1> QED BY <1>1 DEF TreesOk, TreeType, Jpeg

\* One write of an input: it is opened, or closed with what it holds.
LEMMA WriteControl ==
  ASSUME ProcOk, job' = job, torn' = torn, NEW v \in 0 .. Wrong,
         \/ proc' = [proc EXCEPT !.buffer = <<v>>]
         \/ proc' = Entering(proc, proc.pc + 1)
         \/ proc' = [proc EXCEPT !.buffer = <<>>, !.tries = proc.tries + 1]
         \/ proc' = [proc EXCEPT !.buffer = <<>>, !.at = "start"]
  PROVE  Control /\ ProcTyped'
<1>1. CASE proc' = [proc EXCEPT !.buffer = <<v>>]
  <2>1. <<v>> \in Buffers
    BY ProvisionAssumption DEF Buffers
  <2> QED BY <1>1, <2>1 DEF ProcOk, ProcType, IsProc, Control, Stays, SameRun, ProcTyped
<1>2. CASE proc' = Entering(proc, proc.pc + 1)
  BY <1>2, JumpControl DEF Jump, Control
<1>3. CASE proc' = [proc EXCEPT !.buffer = <<>>, !.tries = proc.tries + 1]
  <2>1. proc.tries + 1 \in Nat
    BY DEF ProcOk, ProcType
  <2> QED BY <1>3, <2>1, NoPieces DEF ProcOk, ProcType, IsProc, Control, Stays, SameRun, ProcTyped
<1>4. CASE proc' = [proc EXCEPT !.buffer = <<>>, !.at = "start"]
  BY <1>4, NoPieces DEF ProcOk, ProcType, IsProc, Control, Stays, SameRun, ProcTyped
<1> QED BY <1>1, <1>2, <1>3, <1>4

LEMMA CorpusControl ==
  ASSUME Types, job' = job, Extract_vww_jpegs \/ Write_jpeg \/ Decode_vww_bins \/ Write_bin
  PROVE  Control /\ ProcTyped'
<1>0. ProcOk
  BY DEF Types
<1>1. CASE Extract_vww_jpegs
  <2>1. CASE Jump(1)
    BY <1>0, <2>1, PlainControl
  <2>2. CASE proc' = [proc EXCEPT !.at = "write", !.tries = 1] /\ torn' = torn
    BY <1>0, <2>2 DEF ProcOk, ProcType, IsProc, Control, Stays, SameRun, ProcTyped
  <2> QED BY <1>1, <2>1, <2>2 DEF Extract_vww_jpegs
<1>2. CASE Write_jpeg
  <2> DEFINE v == archive["vww"][1]
  <2>1. v \in 0 .. Wrong
    BY <1>2, Jpegs, ProvisionAssumption DEF Write_jpeg, At, Versions, Wrong
  <2>2. /\ torn' = torn
        /\ \/ proc' = [proc EXCEPT !.buffer = <<v>>]
           \/ proc' = Entering(proc, proc.pc + 1)
           \/ proc' = [proc EXCEPT !.buffer = <<>>, !.tries = proc.tries + 1]
    BY <1>2 DEF Write_jpeg, Write_bytes
  <2> HIDE DEF v
  <2> QED BY <1>0, <2>1, <2>2, WriteControl
<1>3. CASE Decode_vww_bins
  <2>1. CASE Fail \/ Jump(1)
    BY <1>0, <2>1, PlainControl
  <2> DEFINE n == proc.tries + 1
  <2>2. n \in Nat
    BY <1>0 DEF ProcOk, ProcType
  <2>3. \/ Fail \/ Jump(1)
        \/ proc' = [proc EXCEPT !.tries = n] /\ torn' = torn
        \/ proc' = [proc EXCEPT !.at = "write", !.tries = n] /\ torn' = torn
    BY <1>3 DEF Decode_vww_bins
  <2> HIDE DEF n
  <2>4. CASE proc' = [proc EXCEPT !.tries = n] /\ torn' = torn
    BY <1>0, <2>2, <2>4 DEF ProcOk, ProcType, IsProc, Control, Stays, SameRun, ProcTyped
  <2>5. CASE proc' = [proc EXCEPT !.at = "write", !.tries = n] /\ torn' = torn
    BY <1>0, <2>2, <2>5 DEF ProcOk, ProcType, IsProc, Control, Stays, SameRun, ProcTyped
  <2> QED BY <2>1, <2>3, <2>4, <2>5
<1>4. CASE Write_bin
  <2> DEFINE v == Jpeg.files[proc.tries]
  <2>1. v \in 0 .. Wrong
    BY <1>4, Bins DEF Write_bin, At, Types, DiskOk, Inputs, Corpus
  <2>2. /\ torn' = torn
        /\ \/ proc' = [proc EXCEPT !.buffer = <<v>>]
           \/ proc' = Entering(proc, proc.pc + 1)
           \/ proc' = [proc EXCEPT !.buffer = <<>>, !.at = "start"]
    BY <1>4 DEF Write_bin
  <2> HIDE DEF v
  <2> QED BY <1>0, <2>1, <2>2, WriteControl
<1> QED BY <1>1, <1>2, <1>3, <1>4

\* A step of the program moves the control in one of few ways.
LEMMA ControlStep ==
  ASSUME Types, Continue \/ Cut
  PROVE  Control /\ ProcTyped' /\ UNCHANGED <<job, lock, past, reverted>>
<1>1. UNCHANGED <<job, lock, past, reverted>> /\ ProcOk
  BY FrameKept DEF Types
<1> QED BY <1>1, DownloadControl, GitControl, TreeControl, OtherControl, LongJumps, NoteControl,
           CorpusControl DEF Continue

LEMMA SameHere ==
  ASSUME SameRun, job' = job
  PROVE  /\ Here' = Here /\ Of' = Of /\ (Running' <=> Running) /\ Want' = Want
         /\ Place(Of)' = Place(Of)
BY DEF SameRun, Here, Of, Running, Want, Place

LEMMA StepOf ==
  ASSUME ProcOk
  PROVE  /\ Here.op \in {"Git", "Repair", "Note"} => Of \in Repos
         /\ Here.op = "Patch_coremark" => Of = "coremark"
         /\ Here.op \in PairOps => Of \in Pairs
         /\ Here.op = "Unpack" => Of \in MarkedTrees
         /\ Here.op \in {"Marked"} => Of \in {"libflac", "corpus"}
         /\ Here.op \in {"Extract_fatfs", "Patch_fatfs"} => Of = "fatfs"
         /\ Here.op \in {"Extract_serv", "Patch_serv"} => Of = "serv"
         /\ Here.op = "Sync_tree" => Of = "core"
         /\ Here.op = "Extract_vww_jpegs" => Of = "jpeg"
         /\ Here.op = "Decode_vww_bins" => Of = "bins"
         /\ Here.op \in {"Download", "Download_urls"} => Of \in Archives
BY StepHere DEF Fits, Of

------------------------------------------------------------------------------
(* What each step writes has its type.                                     *)

LEMMA Numbers ==
  ASSUME ProcOk
  PROVE  /\ Want \in 0 .. MaxLock /\ proc.rev \in 0 .. MaxLock /\ Want \in 0 .. Wrong
         /\ Want \in 0 .. Broken /\ {0, Wrong, Broken} \subseteq 0 .. Broken
         /\ {0, Wrong} \subseteq 0 .. Wrong /\ 0 \in 0 .. MaxLock /\ 1 \in 0 .. MaxLock
<1>1. MaxLock \in Nat \ {0} /\ proc.want \in 1 .. MaxLock /\ proc.rev \in 1 .. MaxLock
  BY ProvisionAssumption DEF ProcOk, ProcType, Versions
<1>2. Wrong = MaxLock + 1 /\ Broken = MaxLock + 2 /\ Want = proc.want
  BY <1>1 DEF Want, Wrong, Broken
<1>3. /\ proc.want \in 0 .. MaxLock + 2 /\ proc.want \in 0 .. MaxLock + 1
      /\ proc.want \in 0 .. MaxLock /\ proc.rev \in 0 .. MaxLock
      /\ 0 \in 0 .. MaxLock /\ 1 \in 0 .. MaxLock
  BY <1>1
<1>4. {0, MaxLock + 1, MaxLock + 2} \subseteq 0 .. MaxLock + 2
  BY <1>1
<1>5. {0, MaxLock + 1} \subseteq 0 .. MaxLock + 1
  BY <1>1
<1> QED BY <1>2, <1>3, <1>4, <1>5

LEMMA SetRepoTyped ==
  ASSUME repo \in [Repos -> RepoType], NEW r \in RepoType, SetRepo(r)
  PROVE  repo' \in [Repos -> RepoType]
BY DEF SetRepo

LEMMA RepoTyped ==
  ASSUME Types, Continue \/ Cut
  PROVE  (repo \in [Repos -> RepoType])'
<1>0. ProcOk /\ repo \in [Repos -> RepoType]
  BY DEF Types, DiskOk
<1>1. CASE repo' = repo
  BY <1>0, <1>1
<1>2. CASE Git_init \/ Git_checkout \/ Git_submodule \/ Repair_incomplete_checkout \/ Patch_coremark
  <2>1. R \in RepoType
    BY <1>0, <1>2, StepOf DEF Git_init, Git_checkout, Git_submodule, Repair_incomplete_checkout,
       Patch_coremark, At, R, Repos
  <2>2. Want \in 0 .. MaxLock /\ R.head \in 0 .. MaxLock /\ R.patched \in 0 .. 2
    BY <1>0, <2>1, Numbers DEF RepoType
  <2>3. /\ [R EXCEPT !.git = TRUE] \in RepoType /\ [R EXCEPT !.head = Want] \in RepoType
        /\ [R EXCEPT !.sub = R.head] \in RepoType
    BY <2>1, <2>2 DEF RepoType
  <2>4. CASE Git_init \/ Git_checkout \/ Git_submodule \/ Repair_incomplete_checkout
    <3>1. repo' = repo \/ \E r \in RepoType : SetRepo(r)
      BY <2>3, <2>4 DEF Git_init, Git_checkout, Git_submodule, Repair_incomplete_checkout, disk
    <3> QED BY <1>0, <3>1, SetRepoTyped
  <2>5. CASE Patch_coremark
    <3> DEFINE n == IF R.patched = 2 THEN 2 ELSE R.patched + 1
    <3>1. SetRepo([R EXCEPT !.patched = n]) /\ n \in 0 .. 2
      BY <2>2, <2>5 DEF Patch_coremark
    <3> HIDE DEF n
    <3>2. [R EXCEPT !.patched = n] \in RepoType
      BY <2>1, <3>1 DEF RepoType
    <3> QED BY <1>0, <3>1, <3>2, SetRepoTyped
  <2> QED BY <1>2, <2>4, <2>5
<1> QED BY <1>1, <1>2, Writers

LEMMA PairTyped ==
  ASSUME Types, Continue \/ Cut
  PROVE  (pair \in [Pairs -> PairType])'
<1>0. /\ ProcOk /\ pair \in [Pairs -> PairType] /\ repo \in [Repos -> RepoType]
      /\ Want \in 0 .. MaxLock /\ proc.rev \in 0 .. MaxLock
  BY Numbers DEF Types, DiskOk
<1>1. CASE pair' = pair
  BY <1>0, <1>1
<1>2. CASE Generate_liberty \/ Prepare_sim_model \/ Write_revision
  <2>1. pair[Of] \in PairType
    BY <1>0, <1>2, StepOf DEF Generate_liberty, Prepare_sim_model, Write_revision, At, PairOps
  <2>2. repo["pdk"].head \in 0 .. MaxLock
    BY <1>0 DEF Repos, RepoType
  <2>3. /\ [pair[Of] EXCEPT !.out = repo["pdk"].head] \in PairType
        /\ [pair[Of] EXCEPT !.rev = proc.rev] \in PairType
    BY <1>0, <2>1, <2>2 DEF PairType
  <2>4. pair' = pair \/ \E p \in PairType : SetPair(p)
    BY <1>2, <2>3 DEF Generate_liberty, Prepare_sim_model, Write_revision, disk
  <2> QED BY <1>0, <2>4 DEF SetPair
<1>3. CASE Remove_old \/ Remove_fatfs \/ Remove_core
  <2>1. pair' = pair \/ pair' = [pair EXCEPT !["cells"] = [out |-> 0, rev |-> 0]]
    BY <1>3 DEF Remove_old, Remove_fatfs, Remove_core, Remove, SetTree
  <2>2. [out |-> 0, rev |-> 0] \in PairType
    BY <1>0, Numbers DEF PairType
  <2> QED BY <1>0, <2>1, <2>2
<1> QED BY <1>1, <1>2, <1>3, Writers

LEMMA EnvTyped ==
  ASSUME Types, Continue \/ Cut
  PROVE  (env \in EnvType)'
<1>0. ProcOk /\ env \in EnvType
  BY DEF Types, DiskOk
<1>1. /\ Want \in 0 .. MaxLock /\ Want \in 0 .. Broken
      /\ Wrong \in 0 .. Broken /\ Broken \in 0 .. Broken
  BY <1>0, Numbers
<1>2. /\ [env EXCEPT !.python = TRUE] \in EnvType /\ [env EXCEPT !.pip = TRUE] \in EnvType
      /\ [env EXCEPT !.stamp = Want] \in EnvType /\ [env EXCEPT !.active = Want] \in EnvType
      /\ \A half \in {Want, Wrong, Broken} : [env EXCEPT !.packages = half] \in EnvType
  BY <1>0, <1>1 DEF EnvType
<1>3. CASE env' = env
  BY <1>0, <1>3
<1>4. CASE \/ Create_virtualenv \/ Ensure_pip \/ Pip_install \/ Pip_ends
           \/ Write_stamp \/ Write_activation
  <2>1. env' = env \/ \E e \in EnvType : SetEnv(e)
    BY <1>2, <1>4 DEF Create_virtualenv, Ensure_pip, Pip_install, Pip_ends, Write_stamp,
       Write_activation, disk
  <2> QED BY <1>0, <2>1 DEF SetEnv
<1> QED BY <1>3, <1>4, Writers

LEMMA RecordTyped ==
  ASSUME Types, Continue \/ Cut
  PROVE  (record \in [Repos -> 0 .. MaxLock])'
<1>0. /\ record \in [Repos -> 0 .. MaxLock] /\ proc.notes \in [Repos -> 0 .. MaxLock]
      /\ Want \in 0 .. MaxLock /\ 0 \in 0 .. MaxLock
  BY Numbers DEF Types, DiskOk, ProcOk, ProcType
<1>1. \/ record' = record \/ record' = proc.notes
      \/ record' = [r \in Repos |-> IF r \in {"tiny", "mfcc"} THEN Want ELSE 0]
  BY Writers DEF P7_provenance, Npu_provenance
<1> QED BY <1>0, <1>1

LEMMA ArchiveTyped ==
  ASSUME Types, Continue \/ Cut
  PROVE  ArchivesVerified'
<1>0. ProcOk /\ ArchivesVerified
  BY DEF Types, DiskOk
<1>1. CASE archive' = archive
  BY <1>0, <1>1 DEF ArchivesVerified
<1>2. CASE Replace
  <2>1. archive' = [archive EXCEPT ![Of] = Whole(Want)] /\ Want \in Versions
    BY <1>2 DEF Replace, Types, Received, ProcOk, ProcType, Want
  <2> QED BY <1>0, <2>1 DEF ArchivesVerified
<1> QED BY <1>1, <1>2, Writers

LEMMA PartialTyped ==
  ASSUME Types, Continue \/ Cut
  PROVE  Partials'
<1>0. ProcOk /\ Partials
  BY DEF Types, DiskOk
<1>1. CASE partial' = partial
  BY <1>0, <1>1 DEF Partials
<1>2. CASE Request
  BY <1>0, <1>2, RequestControl, FrameKept DEF Partials
<1>3. CASE Receive
  <2>1. PICK v \in Versions \cup {Wrong} :
          /\ proc'.buffer = Append(proc.buffer, v)
          /\ partial' = IF Of \in Resume THEN [partial EXCEPT ![Of] = Append(partial[Of], v)]
                        ELSE partial
    BY <1>3, ReceiveControl, FrameKept
  <2>2. proc'.buffer \in Buffers /\ Of \in Archives
    BY <1>3, ReceiveControl, FrameKept
  <2>3. Of \in Resume => partial[Of] = proc.buffer
    BY <1>3 DEF Receive, Types, Received
  <2> QED BY <1>0, <2>1, <2>2, <2>3 DEF Partials
<1>4. CASE Verify \/ Replace
  <2>1. partial' = partial \/ partial' = [partial EXCEPT ![Of] = <<>>]
    BY <1>4 DEF Verify, Replace, disk
  <2> QED BY <1>0, <2>1, NoPieces DEF Partials
<1> QED BY <1>1, <1>2, <1>3, <1>4, Writers

TreeOf(r) == r \in TreeType /\ (~r.there => r = Nothing)

LEMMA NothingIs == TreeOf(Nothing)
BY ProvisionAssumption DEF TreeOf, TreeType, Nothing, Wrong

LEMMA PlaceHere ==
  ASSUME ProcOk, Here.op \in {"Marked", "Unpack", "Extract_fatfs", "Patch_fatfs", "Extract_serv",
                              "Patch_serv", "Sync_tree", "Extract_vww_jpegs", "Decode_vww_bins"}
  PROVE  Of \in Trees /\ Place(Of) \in Places
<1>1. Of \in Trees
  BY StepOf DEF Trees, MarkedTrees
<1> QED BY <1>1, PlaceOf

LEMMA TreeHere == ASSUME TreesOk, Place(Of) \in Places PROVE TreeOf(T)
BY DEF TreesOk, TreeOf, T

LEMMA SetTreeTyped ==
  ASSUME TreesOk, Place(Of) \in Places, NEW r, TreeOf(r), SetTree(r)
  PROVE  TreesOk'
BY DEF TreesOk, TreeOf, SetTree

LEMMA MarkTyped ==
  ASSUME TreeOf(T), NEW m \in 0 .. MaxLock, T.there
  PROVE  TreeOf([T EXCEPT !.mark = m])
BY DEF TreeOf, TreeType

LEMMA FileTyped ==
  ASSUME TreeOf(T), NEW i, NEW v \in 0 .. Wrong
  PROVE  /\ TreeOf([T EXCEPT !.there = TRUE, !.files[i] = v])
         /\ T.there => TreeOf([T EXCEPT !.files[i] = v])
<1>1. [T.files EXCEPT ![i] = v] \in [Pieces -> 0 .. Wrong]
  BY DEF TreeOf, TreeType
<1> DEFINE f == [T.files EXCEPT ![i] = v]
<1> HIDE DEF f
<1>2. [T EXCEPT !.there = TRUE, !.files = f] \in TreeType /\ [T EXCEPT !.files = f] \in TreeType
  BY <1>1 DEF TreeOf, TreeType, f
<1>3. /\ [T EXCEPT !.there = TRUE, !.files[i] = v] = [T EXCEPT !.there = TRUE, !.files = f]
      /\ [T EXCEPT !.files[i] = v] = [T EXCEPT !.files = f]
  BY DEF TreeOf, TreeType, f
<1> QED BY <1>2, <1>3 DEF TreeOf, TreeType

LEMMA UsedTree == ASSUME TreeOf(T) PROVE /\ T.mark # 0 => T.there
                                         /\ \A i \in Pieces : T.files[i] # 0 => T.there
BY DEF TreeOf, Nothing

LEMMA RemoveTyped ==
  ASSUME Types, NEW at, Remove(at),
         Here.op \in {"Unpack", "Extract_fatfs", "Sync_tree"}
  PROVE  TreesOk'
<1>0. TreesOk /\ Place(Of) \in Places /\ TreeOf(T) /\ 0 \in 0 .. MaxLock /\ 0 \in 0 .. Wrong
  BY PlaceHere, TreeHere, Numbers DEF Types, DiskOk
<1>1. CASE T.mark # 0 /\ SetTree([T EXCEPT !.mark = 0])
  BY <1>0, <1>1, MarkTyped, UsedTree, SetTreeTyped
<1>2. CASE \E i \in Pieces : T.files[i] # 0 /\ SetTree([T EXCEPT !.files[i] = 0])
  BY <1>0, <1>2, FileTyped, UsedTree, SetTreeTyped
<1>3. CASE tree' = [tree EXCEPT ![<<"sram", 0>>] = Nothing]
  BY <1>0, <1>3, NothingIs DEF TreesOk, TreeOf
<1>4. CASE SetTree(Nothing)
  BY <1>0, <1>4, NothingIs, SetTreeTyped
<1> QED BY <1>1, <1>2, <1>3, <1>4 DEF Remove

LEMMA FirstPiece ==
  ASSUME Types, Running, Here.op \in FromArchive
  PROVE  archive[Source(Of)][1] = Want /\ Want \in Versions
BY WholeIs DEF Types, Downloaded, ProcOk, ProcType, Want

LEMMA ServFile ==
  ASSUME TreesOk, NEW i \in Pieces
  PROVE  tree[<<"serv", 0>>].files[i] \in 0 .. Wrong
<1>1. <<"serv", 0>> \in Places
  BY DEF Places, Trees
<1> QED BY <1>1 DEF TreesOk, TreeType

LEMMA TreeTyped == ASSUME Types, Continue \/ Cut PROVE TreesOk'
<1>0. ProcOk /\ TreesOk
  BY DEF Types, DiskOk
<1> DEFINE TreeOps == {"Unpack", "Extract_fatfs", "Patch_fatfs", "Extract_serv", "Patch_serv",
                       "Sync_tree", "Extract_vww_jpegs", "Decode_vww_bins"}
<1>1. Here.op \in TreeOps => Of \in Trees /\ Place(Of) \in Places /\ TreeOf(T)
  BY <1>0, PlaceHere, TreeHere
<1>2. CASE tree' = tree
  BY <1>0, <1>2 DEF TreesOk
<1>3. CASE Remove_old \/ Remove_fatfs \/ Remove_core
  BY <1>3, RemoveTyped DEF Remove_old, Remove_fatfs, Remove_core, At
<1>4. CASE Replace_tree
  <2>1. Here.op = "Unpack" /\ Running /\ Of # "jpeg"
    BY <1>0, <1>4, StepOf DEF Replace_tree, At, MarkedTrees
  <2>2. archive[ArchiveOf(Of)][1] \in 0 .. Wrong /\ Marker \in 0 .. MaxLock
    <3>1. Source(Of) = ArchiveOf(Of)
      BY <2>1 DEF Source
    <3>2. archive[ArchiveOf(Of)][1] = Want
      BY <2>1, <3>1, FirstPiece DEF FromArchive
    <3> QED BY <1>0, <3>2, Numbers DEF Marker
  <2> DEFINE a == archive[ArchiveOf(Of)][1]
             m == Marker
             r == [there |-> TRUE, mark |-> m, files |-> [i \in Pieces |-> a]]
  <2>3. SetTree(r)
    BY <1>4 DEF Replace_tree
  <2>4. a \in 0 .. Wrong /\ m \in 0 .. MaxLock
    BY <2>2
  <2> HIDE DEF a, m
  <2>5. TreeOf(r)
    BY <2>4 DEF TreeOf, TreeType
  <2> QED BY <1>0, <1>1, <2>1, <2>3, <2>5, SetTreeTyped
<1>5. CASE Extractall
  <2>1. Here.op \in {"Extract_fatfs", "Extract_serv"} /\ Running /\ Of \in {"fatfs", "serv"}
    BY <1>0, <1>5, StepOf DEF Extractall
  <2>2. archive[Of][1] \in 0 .. Wrong
    BY <1>0, <2>1, FirstPiece, Numbers DEF Source, ArchiveOf, FromArchive
  <2>3. PICK i \in Pieces : SetTree([T EXCEPT !.there = TRUE, !.files[i] = archive[Of][1]])
    BY <1>5 DEF Extractall, Writes_file
  <2> QED BY <1>0, <1>1, <2>1, <2>2, <2>3, FileTyped, SetTreeTyped
<1>6. CASE Patch
  <2>1. tree' = tree \/ (T.files[1] # 0 /\ SetTree([T EXCEPT !.mark = 1]))
    BY <1>6 DEF Patch, disk
  <2>2. CASE T.files[1] # 0 /\ SetTree([T EXCEPT !.mark = 1])
    <3>1. Here.op \in TreeOps /\ 1 \in 0 .. MaxLock /\ 1 \in Pieces
      BY <1>0, <1>6, Numbers DEF Patch, Pieces
    <3> HIDE DEF TreeOps
    <3> QED BY <1>0, <1>1, <2>2, <3>1, MarkTyped, UsedTree, SetTreeTyped
  <2> QED BY <1>2, <2>1, <2>2
<1>7. CASE Copytree
  <2>1. PICK i \in Pieces :
          SetTree([T EXCEPT !.there = TRUE, !.files[i] = tree[<<"serv", 0>>].files[i]])
    BY <1>7 DEF Copytree
  <2>2. Here.op \in TreeOps
    BY <1>7 DEF Copytree, At
  <2> HIDE DEF TreeOps
  <2> QED BY <1>0, <1>1, <2>1, <2>2, ServFile, FileTyped, SetTreeTyped
<1>8. CASE Write_jpeg \/ Write_bin
  <2>1. /\ Running /\ Here.op \in {"Extract_vww_jpegs", "Decode_vww_bins"} /\ proc.at = "write"
        /\ Here.op \in TreeOps
    BY <1>8 DEF Write_jpeg, Write_bin, At
  <2>2. proc.buffer # <<>> => T.there
    BY <2>1 DEF Types, Inputs, Corpus
  <2>3. \E v \in 0 .. Wrong :
           IF proc.buffer = <<>>
           THEN SetTree([T EXCEPT !.there = TRUE, !.files[proc.tries] = Wrong])
           ELSE SetTree([T EXCEPT !.files[proc.tries] = v])
    <3>1. CASE Write_jpeg
      <4>1. archive["vww"][1] \in 0 .. Wrong
        BY <3>1, Jpegs, ProvisionAssumption DEF Write_jpeg, At, Versions, Wrong
      <4> QED BY <3>1, <4>1 DEF Write_jpeg, Write_bytes
    <3>2. CASE Write_bin
      <4>1. Jpeg.files[proc.tries] \in 0 .. Wrong
        BY <1>0, <3>2, Bins DEF Write_bin, At, Types, Inputs, Corpus
      <4> QED BY <3>2, <4>1 DEF Write_bin
    <3> QED BY <1>8, <3>1, <3>2
  <2>4. Wrong \in 0 .. Wrong
    BY ProvisionAssumption DEF Wrong
  <2> HIDE DEF TreeOps
  <2> QED BY <1>0, <1>1, <2>1, <2>2, <2>3, <2>4, FileTyped, SetTreeTyped
<1> QED BY <1>2, <1>3, <1>4, <1>5, <1>6, <1>7, <1>8, Writers

DownloadStep == Download_file \/ Request \/ Range_refused \/ Receive \/ Verify \/ Replace \/ Cut

------------------------------------------------------------------------------
(* What holds between the steps: the archive, the download, the corpus.    *)

\* The step a program takes is one of the operation it is at.
LEMMA OpOfStep ==
  /\ DownloadStep => Downloads
  /\ Ensure_git_repo \/ Git_init \/ Git_checkout \/ Git_submodule => Here.op = "Git"
  /\ Repair_incomplete_checkout => Here.op = "Repair"
  /\ Marked => Here.op = "Marked"
  /\ Unpack \/ Remove_old \/ Replace_tree => Here.op = "Unpack"
  /\ Validate_notices => Here.op = "Validate_notices"
  /\ Extract_fatfs \/ Remove_fatfs => Here.op = "Extract_fatfs"
  /\ Extract_serv => Here.op = "Extract_serv"
  /\ Extractall => Here.op \in {"Extract_fatfs", "Extract_serv"}
  /\ Patch => Here.op \in {"Patch_fatfs", "Patch_serv"}
  /\ Sync_tree \/ Remove_core \/ Copytree => Here.op = "Sync_tree"
  /\ Patch_coremark => Here.op = "Patch_coremark"
  /\ Extract_vww_jpegs \/ Write_jpeg => Here.op = "Extract_vww_jpegs"
  /\ Decode_vww_bins \/ Write_bin => Here.op = "Decode_vww_bins"
  /\ Note => Here.op = "Note"
  /\ P7_provenance => Here.op = "P7_provenance"
  /\ Npu_provenance => Here.op = "Npu_provenance"
  /\ Generate_liberty => Here.op = "Generate_liberty"
  /\ Prepare_sim_model => Here.op = "Prepare_sim_model"
  /\ Write_revision => Here.op \in PairOps
  /\ Has_environment => Here.op = "Has_environment"
  /\ Create_virtualenv \/ Ensure_pip => Here.op = "Create_virtualenv"
  /\ Pip_install \/ Pip_ends => Here.op = "Pip"
  /\ Write_stamp => Here.op = "Write_stamp"
  /\ Write_activation => Here.op = "Write_activation"
  /\ Check => Here.op = "Check"
  /\ Continue \/ Cut => Running
<1>1. DownloadStep => Downloads
  BY DEF DownloadStep, Download_file, Request, Range_refused, Receive, Verify, Replace, Cut
<1>2. /\ Ensure_git_repo \/ Git_init \/ Git_checkout \/ Git_submodule => Here.op = "Git"
      /\ Repair_incomplete_checkout => Here.op = "Repair"
      /\ Patch_coremark => Here.op = "Patch_coremark"
  BY DEF Ensure_git_repo, Git_init, Git_checkout, Git_submodule, Repair_incomplete_checkout,
     Patch_coremark, At
<1>3. /\ Marked => Here.op = "Marked"
      /\ Unpack \/ Remove_old \/ Replace_tree => Here.op = "Unpack"
      /\ Validate_notices => Here.op = "Validate_notices"
      /\ Extract_fatfs \/ Remove_fatfs => Here.op = "Extract_fatfs"
      /\ Extract_serv => Here.op = "Extract_serv"
      /\ Extractall => Here.op \in {"Extract_fatfs", "Extract_serv"}
      /\ Patch => Here.op \in {"Patch_fatfs", "Patch_serv"}
      /\ Sync_tree \/ Remove_core \/ Copytree => Here.op = "Sync_tree"
      /\ Extract_vww_jpegs \/ Write_jpeg => Here.op = "Extract_vww_jpegs"
      /\ Decode_vww_bins \/ Write_bin => Here.op = "Decode_vww_bins"
  BY DEF Marked, Unpack, Remove_old, Replace_tree, Validate_notices, Extract_fatfs, Remove_fatfs,
     Extract_serv, Extractall, Patch, Sync_tree, Remove_core, Copytree, Extract_vww_jpegs,
     Write_jpeg, Decode_vww_bins, Write_bin, At
<1>4. /\ Note => Here.op = "Note"
      /\ P7_provenance => Here.op = "P7_provenance"
      /\ Npu_provenance => Here.op = "Npu_provenance"
      /\ Generate_liberty => Here.op = "Generate_liberty"
      /\ Prepare_sim_model => Here.op = "Prepare_sim_model"
      /\ Write_revision => Here.op \in PairOps
      /\ Has_environment => Here.op = "Has_environment"
      /\ Create_virtualenv \/ Ensure_pip => Here.op = "Create_virtualenv"
      /\ Pip_install \/ Pip_ends => Here.op = "Pip"
      /\ Write_stamp => Here.op = "Write_stamp"
      /\ Write_activation => Here.op = "Write_activation"
      /\ Check => Here.op = "Check"
  BY DEF Note, P7_provenance, Npu_provenance, Generate_liberty, Prepare_sim_model, Write_revision,
     Has_environment, Create_virtualenv, Ensure_pip, Pip_install, Pip_ends, Write_stamp,
     Write_activation, Check, At, PairOps
<1>5. Continue \/ Cut => Running
  BY DEF Continue, Cut, Download_file, Request, Range_refused, Receive, Verify, Replace, Downloads,
   Ensure_git_repo, Git_init, Git_checkout, Git_submodule, Repair_incomplete_checkout,
   Marked, Unpack, Remove_old, Replace_tree, Validate_notices, Extract_fatfs, Remove_fatfs,
   Extract_serv, Extractall, Patch, Sync_tree, Remove_core, Copytree,
   Patch_coremark, Extract_vww_jpegs, Write_jpeg, Decode_vww_bins, Write_bin, Note,
   P7_provenance, Npu_provenance, Generate_liberty, Prepare_sim_model, Write_revision,
   Has_environment, Create_virtualenv, Ensure_pip, Pip_install, Pip_ends, Write_stamp,
   Write_activation, Check, At
<1> QED BY <1>1, <1>2, <1>3, <1>4, <1>5

LEMMA StepOfOp ==
  ASSUME Continue \/ Cut
  PROVE  /\ Downloads => DownloadStep
         /\ Here.op = "Git" => Ensure_git_repo \/ Git_init \/ Git_checkout \/ Git_submodule
         /\ Here.op = "Marked" => Marked
         /\ Here.op = "Unpack" => Unpack \/ Remove_old \/ Replace_tree
         /\ Here.op = "Extract_fatfs" => Extract_fatfs \/ Remove_fatfs \/ Extractall
         /\ Here.op = "Sync_tree" => Sync_tree \/ Remove_core \/ Copytree
         /\ Here.op = "Extract_vww_jpegs" => Extract_vww_jpegs \/ Write_jpeg
         /\ Here.op = "Decode_vww_bins" => Decode_vww_bins \/ Write_bin
         /\ Here.op = "Generate_liberty" => Generate_liberty \/ Write_revision
         /\ Here.op = "Prepare_sim_model" => Prepare_sim_model \/ Write_revision
         /\ Here.op = "Has_environment" => Has_environment
         /\ Here.op = "Pip" => Pip_install \/ Pip_ends
         /\ Here.op = "Write_stamp" => Write_stamp
         /\ Here.op = "Write_activation" => Write_activation
BY OpOfStep DEF Continue, DownloadStep, Downloads, PairOps

LEMMA DownloadsAre == Downloads <=> Running /\ Here.op \in {"Download", "Download_urls"}
BY DEF Downloads

\* The program leaves a download for the next step with the verified archive in place.
LEMMA DownloadAdvances ==
  ASSUME Types, DownloadStep, UNCHANGED job, Advances(1)
  PROVE  archive'[Of] = Whole(Want)
<1>0. ProcOk /\ Of \in Archives /\ ArchivesVerified /\ Running
  BY DownloadOf, OpOfStep DEF Types, DiskOk, Downloads
<1>1. proc'.at = "start" /\ proc'.status # "failed"
  BY <1>0 DEF Advances, Moves, Running
<1>2. ~Attempt_failed
  <2>1. Attempt_failed => proc'.at = "request" \/ Fail
    BY <1>0 DEF Attempt_failed, ProcOk, ProcType, IsProc
  <2> QED BY <1>0, <1>1, <2>1, FailControl DEF Fails
<1>3. \A at : Go(at) => at = "start"
  BY <1>0, <1>1, GoControl
<1>4. ~Fail
  BY <1>0, <1>1, FailControl DEF Fails
<1>5. CASE Download_file
  BY <1>3, <1>4, <1>5 DEF Download_file, disk
<1>6. CASE Request \/ Receive
  BY <1>1, <1>6, RequestControl, ReceiveControl
<1>7. CASE Replace
  BY <1>0, <1>7 DEF Replace, Types, Received, ArchivesVerified
<1>8. CASE Range_refused \/ Verify \/ Cut
  BY <1>2, <1>3, <1>8 DEF Range_refused, Verify, Cut
<1> QED BY <1>5, <1>6, <1>7, <1>8 DEF DownloadStep

\* The step after, when the program goes on.
LEMMA NextHere ==
  ASSUME ProcOk, job' = job, Running, Advances(1), Running'
  PROVE  /\ proc'.pc = proc.pc + 1 /\ Here' = Program[job][proc.pc + 1] /\ Of' = Here'.of
         /\ Follows(Here, Here') /\ Fits(Here') /\ Placed(job, proc.pc + 1, Here')
         /\ Want' = IF Reads(proc.pc + 1) THEN lock ELSE Want
<1>1. /\ proc'.pc = proc.pc + 1 /\ Want' = IF Reads(proc.pc + 1) THEN lock ELSE Want
      /\ ~(proc.pc + 1 > Len(Program[job]))
  BY DEF Advances, Moves, Running, Want
<1>2. proc.pc \in 1 .. Len(Program[job]) /\ Len(Program[job]) \in Nat
  BY StepHere, ProgramLen DEF ProcOk
<1>3. proc.pc + 1 \in 1 .. Len(Program[job]) /\ proc.pc + 1 > 1 /\ (proc.pc + 1) - 1 = proc.pc
  BY <1>1, <1>2
<1>4. Shaped(job, Program[job])
  BY ProgramShape DEF ProcOk
<1>5. Here' = Program[job][proc.pc + 1]
  BY <1>1 DEF Here
<1>6. Here = Program[job][(proc.pc + 1) - 1]
  BY <1>3 DEF Here
<1>7. Follows(Program[job][(proc.pc + 1) - 1], Program[job][proc.pc + 1])
  BY <1>3, <1>4 DEF Shaped
<1>8. Fits(Program[job][proc.pc + 1]) /\ Placed(job, proc.pc + 1, Program[job][proc.pc + 1])
  BY <1>3, <1>4 DEF Shaped
<1> QED BY <1>1, <1>5, <1>6, <1>7, <1>8 DEF Of

LEMMA MarkedHere ==
  ASSUME ProcOk, job' = job, Running, Here.op = "Marked", Advances(3), Running'
  PROVE  /\ proc'.pc = proc.pc + 3 /\ Here'.op \in {"Marked", "Validate_notices"}
         /\ job = "apu_p5" /\ proc.pc \in {1, 4}
<1>1. /\ proc'.pc = proc.pc + 3 /\ job = "apu_p5" /\ proc.pc \in {1, 4} /\ Len(Program[job]) = 7
  BY StepHere, Steps_apu_p5 DEF Placed, Advances, Moves, Running
<1>2. Here' = Program[job][proc.pc + 3]
  BY <1>1 DEF Here
<1> QED BY <1>1, <1>2, Steps_apu_p5 DEF Step

LEMMA InstalledHere ==
  ASSUME ProcOk, job' = job, Running, Here.op = "Has_environment", Advances(6), Running'
  PROVE  proc'.pc = 7 /\ proc.pc = 1 /\ Here'.op = "Write_activation" /\ job = "environment"
<1>1. /\ proc'.pc = proc.pc + 6 /\ job = "environment" /\ proc.pc = 1
  BY StepHere, Steps_environment DEF Placed, Advances, Moves, Running
<1>2. Here' = Program[job][7]
  BY <1>1 DEF Here
<1> QED BY <1>1, <1>2, Steps_environment DEF Step

LEMMA DownloadedStep ==
  ASSUME Types, Continue \/ Cut
  PROVE  Downloaded'
<1>0. ProcOk /\ Control /\ UNCHANGED <<job, lock>> /\ Running
  BY ControlStep, OpOfStep DEF Types
<1>1. CASE Stays
  <2>1. Here' = Here /\ Of' = Of /\ (Running' <=> Running) /\ Want' = Want
    BY <1>0, <1>1, SameHere DEF Stays
  <2>2. Here.op \in FromArchive => archive' = archive
    BY Writers, OpOfStep DEF DownloadStep, Downloads, FromArchive
  <2>3. Whole(Want)' = Whole(Want)
    BY <2>1 DEF Whole
  <2> QED BY <2>1, <2>2, <2>3 DEF Types, Downloaded
<1>2. CASE Advances(1)
  <2> SUFFICES ASSUME Running', Here'.op \in FromArchive
               PROVE  archive'[Source(Of')] = Whole(Want')
    BY DEF Downloaded, Whole
  <2>1. /\ Here.op \in {"Download", "Download_urls"} /\ Of = Source(Of')
        /\ Want' = IF Reads(proc.pc + 1) THEN lock ELSE Want
        /\ Here' = Program[job][proc.pc + 1]
    BY <1>0, <1>2, NextHere DEF Follows, Of
  <2>2. ~Reads(proc.pc + 1)
    BY <2>1 DEF Reads, FromArchive
  <2>3. archive'[Of] = Whole(Want)
    BY <1>0, <1>2, <2>1, StepOfOp, DownloadAdvances DEF Downloads
  <2> QED BY <2>1, <2>2, <2>3 
<1>3. CASE Fails
  BY <1>3 DEF Fails, Downloaded, Running
<1>4. CASE Here.op = "Marked" /\ Advances(3)
  BY <1>0, <1>4, MarkedHere DEF Downloaded, FromArchive
<1>5. CASE Here.op = "Has_environment" /\ Advances(6)
  BY <1>0, <1>5, InstalledHere DEF Downloaded, FromArchive
<1> QED BY <1>0, <1>1, <1>2, <1>3, <1>4, <1>5 DEF Control

LEMMA ReceivedStep ==
  ASSUME Types, Continue \/ Cut
  PROVE  Received'
<1>0. ProcOk /\ Control /\ UNCHANGED <<job, lock>> /\ Running /\ Partials
  BY ControlStep, OpOfStep DEF Types, DiskOk
<1>1. CASE Stays /\ Downloads
  <2>0. Here' = Here /\ Of' = Of /\ (Running' <=> Running) /\ Want' = Want
    BY <1>0, <1>1, SameHere DEF Stays
  <2>1. Whole(Want)' = Whole(Want) /\ (Downloads' <=> Downloads)
    BY <2>0 DEF Whole, Downloads
  <2>2. CASE Request
    BY <1>0, <2>0, <2>1, <2>2, RequestControl DEF Received, Partials
  <2>3. CASE Receive
    <3>1. PICK v \in Versions \cup {Wrong} :
            /\ proc'.buffer = Append(proc.buffer, v)
            /\ partial' = IF Of \in Resume THEN [partial EXCEPT ![Of] = Append(partial[Of], v)]
                          ELSE partial
      BY <1>0, <2>3, ReceiveControl
    <3>2. proc'.at = "body" /\ proc.at = "body" /\ Of \in Archives
      BY <1>0, <2>3, ReceiveControl
    <3>3. Of \in Resume => partial[Of] = proc.buffer
      BY <1>1, <3>2 DEF Types, Received
    <3> QED BY <1>0, <2>0, <2>1, <3>1, <3>2, <3>3 DEF Received, Partials
  <2>4. ASSUME NEW at, Go(at), at = "body" => FALSE, at = "replace" => proc.buffer = Whole(Want)
        PROVE  Received'
    <3>1. proc'.at = at /\ proc'.buffer = proc.buffer
      BY <1>0, <2>4, GoControl
    <3> QED BY <2>0, <2>1, <2>4, <3>1 DEF Received
  <2>5. CASE Attempt_failed
    <3>1. proc'.at \in {"request", "start"}
      BY <1>0, <2>5, AttemptControl
    <3> QED BY <3>1 DEF Received
  <2>6. ASSUME NEW n \in {1, 3}, Jump(n) PROVE Received'
    <3>1. proc'.at = "start"
      BY <1>0, <2>6, JumpControl DEF Advances, Moves
    <3> QED BY <3>1 DEF Received
  <2>7. CASE Fail
    BY <1>0, <2>7, FailControl DEF Fails, Received
  <2>8. CASE Download_file
    BY <2>4, <2>6, <2>7, <2>8 DEF Download_file
  <2>9. CASE Verify
    BY <2>4, <2>5, <2>9 DEF Verify
  <2>10. DownloadStep
    BY <1>1, StepOfOp
  <2> QED BY <2>2, <2>3, <2>5, <2>6, <2>8, <2>9, <2>10 DEF DownloadStep, Range_refused, Cut, Replace
<1>2. CASE Stays /\ ~Downloads
  <2>1. Here' = Here /\ (Running' <=> Running)
    BY <1>0, <1>2, SameHere DEF Stays
  <2> QED BY <1>2, <2>1 DEF Received, Downloads
<1>3. CASE proc'.at = "start"
  BY <1>3 DEF Received
<1> QED BY <1>0, <1>1, <1>2, <1>3 DEF Control, Advances, Moves, Fails

LEMMA CorpusPlace ==
  ASSUME ProcOk, Corpus PROVE Place(Of) \in Places
BY PlaceHere DEF Corpus

LEMMA InputsStep ==
  ASSUME Types, Continue \/ Cut
  PROVE  Inputs'
<1>0. ProcOk /\ Control /\ UNCHANGED <<job, lock>> /\ Running /\ TreesOk /\ ProcType(proc)
  BY ControlStep, OpOfStep DEF Types, DiskOk, ProcOk
<1> DEFINE Closed == proc'.at = "write" /\ proc'.tries \in Pieces /\ proc'.buffer = <<>>
           Open   == proc'.at = "write" /\ proc'.tries \in Pieces /\ T'.there
           Ready  == proc'.at # "write" /\ proc'.tries \in {0, 1} /\ proc'.buffer = <<>>
<1>1. Closed \/ Open \/ Ready => Inputs'
  BY DEF Inputs
<1>2. \A n \in {1, 3, 6} : Advances(n) => Ready
  BY DEF Advances, Moves
<1>3. Fails => Inputs'
  BY DEF Fails, Inputs, Corpus, Running
<1>4. CASE Stays /\ Corpus
  <2>0. /\ Here' = Here /\ Of' = Of /\ (Running' <=> Running)
        /\ Place(Of)' = Place(Of) /\ Place(Of) \in Places
    BY <1>0, <1>4, SameHere, CorpusPlace DEF Stays
  <2>1. T' = tree'[Place(Of)]
    BY <2>0 DEF T
  <2>2. /\ proc.at = "write" => proc.tries \in Pieces /\ (proc.buffer # <<>> => T.there)
        /\ proc.at # "write" => /\ proc.buffer = <<>>
                                /\ Here.op = "Decode_vww_bins" => proc.tries \in {0, 1}
    BY <1>4 DEF Types, Inputs
  <2>3. ASSUME proc.at = "write", proc'.at = "write", proc'.tries = proc.tries,
               SetTree([T EXCEPT !.there = TRUE, !.files[proc.tries] = Wrong])
        PROVE  Open
    <3>1. T' = [T EXCEPT !.there = TRUE, !.files[proc.tries] = Wrong] /\ TreeOf(T)
      BY <1>0, <2>0, <2>1, <2>3, TreeHere DEF SetTree, TreesOk
    <3> QED BY <2>2, <2>3, <3>1 DEF TreeOf, TreeType
  <2>4. \A n \in {1} : Jump(n) => Ready
    BY <1>0, <1>2, JumpControl
  <2>5. CASE Extract_vww_jpegs
    <3>1. CASE proc' = [proc EXCEPT !.at = "write", !.tries = 1]
      <4>1. proc'.at = "write" /\ proc'.tries = 1 /\ proc'.buffer = proc.buffer
        BY <1>0, <3>1 DEF ProcType, IsProc
      <4> QED BY <1>1, <2>2, <2>5, <4>1 DEF Pieces, Extract_vww_jpegs, At
    <3> QED BY <1>1, <2>4, <2>5, <3>1 DEF Extract_vww_jpegs
  <2>6. CASE Decode_vww_bins
    <3> DEFINE n == proc.tries + 1
    <3>1. Here.op = "Decode_vww_bins" /\ proc.at = "start" /\ proc.tries \in {0, 1}
      BY <2>2, <2>6 DEF Decode_vww_bins, At
    <3>2. CASE proc' = [proc EXCEPT !.tries = n] /\ n < 2
      <4>1. proc'.at = "start" /\ proc'.tries = n /\ proc'.buffer = proc.buffer
        BY <1>0, <3>1, <3>2 DEF ProcType, IsProc
      <4> QED BY <1>1, <2>2, <3>1, <3>2, <4>1
    <3>3. CASE proc' = [proc EXCEPT !.at = "write", !.tries = n]
      <4>1. proc'.at = "write" /\ proc'.tries = n /\ proc'.buffer = proc.buffer
        BY <1>0, <3>1, <3>3 DEF ProcType, IsProc
      <4> QED BY <1>1, <2>2, <3>1, <4>1 DEF Pieces
    <3>4. CASE Fail
      BY <1>0, <1>3, <3>4, FailControl
    <3>5. \/ Fail \/ Jump(1) \/ (proc' = [proc EXCEPT !.tries = n] /\ n < 2)
          \/ proc' = [proc EXCEPT !.at = "write", !.tries = n]
      BY <2>6 DEF Decode_vww_bins
    <3> QED BY <1>1, <2>4, <3>2, <3>3, <3>4, <3>5
  <2>7. CASE Write_jpeg \/ Write_bin
    <3>1. proc.at = "write" /\ proc.tries \in Pieces
      BY <2>2, <2>7 DEF Write_jpeg, Write_bin, At
    <3>2. \/ /\ \E v : proc' = [proc EXCEPT !.buffer = <<v>>]
             /\ SetTree([T EXCEPT !.there = TRUE, !.files[proc.tries] = Wrong])
          \/ proc' = Entering(proc, proc.pc + 1)
          \/ proc' = [proc EXCEPT !.buffer = <<>>, !.tries = proc.tries + 1] /\ proc.tries # 2
          \/ proc' = [proc EXCEPT !.buffer = <<>>, !.at = "start"] /\ proc.tries # 2
      BY <2>7 DEF Write_jpeg, Write_bytes, Write_bin
    <3>3. ASSUME NEW v, proc' = [proc EXCEPT !.buffer = <<v>>],
                 SetTree([T EXCEPT !.there = TRUE, !.files[proc.tries] = Wrong])
          PROVE  Open
      <4>1. proc'.at = "write" /\ proc'.tries = proc.tries
        BY <1>0, <3>1, <3>3 DEF ProcType, IsProc
      <4> QED BY <2>3, <3>1, <3>3, <4>1
    <3>4. CASE proc' = Entering(proc, proc.pc + 1)
      <4>1. proc'.at = "start" /\ proc'.tries = 0 /\ proc'.buffer = <<>>
        BY <1>0, <3>4, EnteringTyped
      <4> QED BY <1>1, <4>1
    <3>5. CASE proc' = [proc EXCEPT !.buffer = <<>>, !.tries = proc.tries + 1] /\ proc.tries # 2
      <4>1. proc'.at = "write" /\ proc'.tries = proc.tries + 1 /\ proc'.buffer = <<>>
        BY <1>0, <3>1, <3>5 DEF ProcType, IsProc
      <4> QED BY <1>1, <3>1, <3>5, <4>1 DEF Pieces
    <3>6. CASE proc' = [proc EXCEPT !.buffer = <<>>, !.at = "start"] /\ proc.tries # 2
      <4>1. proc'.at = "start" /\ proc'.tries = proc.tries /\ proc'.buffer = <<>>
        BY <1>0, <3>1, <3>6 DEF ProcType, IsProc
      <4> QED BY <1>1, <3>1, <3>6, <4>1 DEF Pieces
    <3> QED BY <1>1, <3>2, <3>3, <3>4, <3>5, <3>6
  <2> QED BY <1>4, <2>5, <2>6, <2>7, StepOfOp DEF Corpus
<1>5. CASE Stays /\ ~Corpus
  <2>1. Here' = Here /\ (Running' <=> Running)
    BY <1>0, <1>5, SameHere DEF Stays
  <2> QED BY <1>5, <2>1 DEF Inputs, Corpus
<1> QED BY <1>0, <1>1, <1>2, <1>3, <1>4, <1>5 DEF Control

------------------------------------------------------------------------------
(* Every step of the specification keeps the types.                       *)

LEMMA StartTypes ==
  ASSUME Types, NEW update \in BOOLEAN, Start(update)
  PROVE  Types'
<1>1. /\ UNCHANGED <<job, lock, disk>>
      /\ proc' = [status |-> "running", pc |-> 1, at |-> "start", want |-> lock, rev |-> lock,
                  update |-> update, steady |-> TRUE, buffer |-> <<>>, tries |-> 0,
                  notes |-> proc.notes]
  BY DEF Start
<1>2. ProcOk /\ DiskOk
  BY DEF Types
<1>3. /\ ProcType(proc') /\ proc'.pc = 1 /\ proc'.at = "start"
      /\ proc'.buffer = <<>> /\ proc'.tries = 0
  BY <1>1, <1>2, NoPieces DEF ProcOk, ProcType, IsProc
<1>4. ProcOk'
  BY <1>1, <1>2, <1>3, ProgramLen DEF ProcOk
<1>5. DiskOk'
  BY <1>1, <1>2 DEF DiskOk, disk, ArchivesVerified, Partials, TreesOk
<1>6. Downloaded'
  <2>1. Here' = Program[job][1] /\ 1 \in 1 .. Len(Program[job])
    BY <1>1, <1>2, <1>3, ProgramLen DEF Here, ProcOk
  <2>2. Placed(job, 1, Here')
    BY <1>2, <2>1, ProgramShape DEF Shaped, ProcOk
  <2> QED BY <2>2 DEF Placed, Downloaded
<1>7. Received' /\ Inputs'
  BY <1>3 DEF Received, Inputs
<1> QED BY <1>4, <1>5, <1>6, <1>7 DEF Types

LEMMA TypesStep == Types /\ [Next]_vars => Types'
<1> SUFFICES ASSUME Types, [Next]_vars PROVE Types'
  OBVIOUS
<1>0. ProcOk /\ DiskOk
  BY DEF Types
<1>1. CASE Continue \/ Cut
  <2>1. ProcOk'
    BY <1>0, <1>1, ControlStep DEF ProcOk, ProcTyped
  <2>2. DiskOk'
    BY <1>1, ArchiveTyped, PartialTyped, TreeTyped, RepoTyped, PairTyped, EnvTyped, RecordTyped
       DEF DiskOk
  <2> QED BY <1>1, <2>1, <2>2, DownloadedStep, ReceivedStep, InputsStep DEF Types
<1>2. CASE Kill
  <2>1. Fails /\ ProcTyped' /\ UNCHANGED <<job, lock, disk>>
    BY <1>0, <1>2, FailControl DEF Kill
  <2>2. ProcOk' /\ DiskOk'
    BY <1>0, <2>1 DEF ProcOk, ProcTyped, DiskOk, disk, ArchivesVerified, Partials, TreesOk
  <2> QED BY <2>1, <2>2 DEF Types, Fails, Running, Downloaded, Received, Downloads, Inputs, Corpus
<1>3. ASSUME NEW update \in BOOLEAN, Start(update) PROVE Types'
  BY <1>3, StartTypes
<1>4. ASSUME NEW v \in Versions, Move_lock(v) PROVE Types'
  <2>1. /\ lock' = v /\ UNCHANGED <<job, disk>>
        /\ proc' = [proc EXCEPT !.steady = FALSE]
    BY <1>4 DEF Move_lock
  <2>2. /\ ProcType(proc') /\ proc'.want = proc.want /\ proc'.pc = proc.pc /\ proc'.at = proc.at
        /\ proc'.buffer = proc.buffer /\ proc'.status = proc.status /\ proc'.tries = proc.tries
    BY <1>0, <2>1 DEF ProcOk, ProcType, IsProc
  <2>3. ProcOk' /\ DiskOk'
    BY <1>0, <1>4, <2>1, <2>2 DEF ProcOk, DiskOk, disk, ArchivesVerified, Partials, TreesOk
  <2>4. Here' = Here /\ Of' = Of /\ (Running' <=> Running) /\ Want' = Want /\ T' = T
    BY <2>1, <2>2 DEF Here, Of, Running, Want, T, Place, disk
  <2>5. Whole(Want)' = Whole(Want) /\ UNCHANGED <<archive, partial>>
    BY <2>1, <2>4 DEF Whole, disk
  <2> QED BY <2>2, <2>3, <2>4, <2>5 DEF Types, Downloaded, Received, Downloads, Inputs, Corpus
<1>5. CASE UNCHANGED vars
  BY <1>5 DEF vars, disk, Types, ProcOk, DiskOk, Downloaded, Received, Downloads, Inputs, Corpus,
     ArchivesVerified, Partials, TreesOk, Here, Of, Running, Want, T, Place, Whole
<1> QED BY <1>1, <1>2, <1>3, <1>4, <1>5 DEF Next

LEMMA TypesInit == Init => Types
<1> SUFFICES ASSUME Init PROVE Types
  OBVIOUS
<1>0. 1 \in Versions /\ 0 \in 0 .. MaxLock /\ 0 \in 0 .. Wrong /\ 0 \in 0 .. Broken
  BY ProvisionAssumption DEF Versions, Wrong, Broken
<1>1. ProcOk
  <2>1. ProcType(proc) /\ proc.pc = 1
    BY <1>0, NoPieces DEF Init, ProcType, IsProc
  <2> QED BY <1>0, <2>1, ProgramLen DEF Init, ProcOk
<1>2. ArchivesVerified /\ Partials
  BY NoPieces DEF Init, ArchivesVerified, Partials
<1>3. TreesOk
  BY NothingIs DEF Init, TreesOk, TreeOf
<1>4. /\ repo \in [Repos -> RepoType] /\ pair \in [Pairs -> PairType] /\ env \in EnvType
      /\ record \in [Repos -> 0 .. MaxLock]
  BY <1>0 DEF Init, RepoType, PairType, EnvType
<1>5. ~Running
  BY DEF Init, Running
<1> QED BY <1>1, <1>2, <1>3, <1>4, <1>5
        DEF Types, DiskOk, Downloaded, Received, Downloads, Inputs, Corpus

\* TypeOK for any number of versions, pieces, kills, cuts, moves and restarts: every step of
\* the setup programs finds the disk, the buffers and its own counters in range, and a
\* directory that is not there has neither files nor a marker.
THEOREM ProvisionTypeCorrect == Spec => []TypeOK
<1>1. Types => TypeOK
  BY DEF Types, TypeOK, ProcOk, ProcType, DiskOk, ArchivesVerified, Partials, TreesOk, Buffers,
     TreeType, RepoType, PairType, EnvType
<1> QED BY <1>1, TypesInit, TypesStep, PTL DEF Spec

\* Whatever is killed, cut, resumed from a partial file of an older version or retried,
\* an archive in place is the verified bytes of one version of the lock
\* (setup_helpers.download_file).
THEOREM ArchivesStayVerified == Spec => []ArchivesVerified
<1>1. Types => ArchivesVerified
  BY DEF Types, DiskOk
<1> QED BY <1>1, TypesInit, TypesStep, PTL DEF Spec

------------------------------------------------------------------------------
(* What the markers on the disk stand for.                                 *)

WholeTree(v) == [there |-> TRUE, mark |-> v, files |-> [i \in Pieces |-> v]]
MarkedPlaces == {p \in Places : p[1] \in MarkedTrees}

\* A version that is not the one the lock pins, unless the lock came back.
Other(v)    == reverted \/ v # lock
Removing(p) == At("Unpack", "remove") /\ p = Place(Of)
Writing(p)  == Running /\ Here.op \in PairOps /\ proc.at = "revision" /\ p = Of
Piping      == Running /\ Here.op \in {"Pip", "Write_stamp"}

\* Every marker names a version the lock has pinned.
Known ==
  /\ {lock, proc.want, proc.rev} \subseteq past
  /\ \A p \in MarkedPlaces : tree[p].mark \in past \cup {0}
  /\ \A p \in Pairs : pair[p].rev \in past \cup {0}
  /\ env.stamp \in past \cup {0}

\* A program that has not read the version the lock moved to finds no marker of it.
Fresh == Running /\ ~reverted =>
  /\ Want # lock => env.stamp # lock /\ \A p \in MarkedPlaces : tree[p].mark # lock
  /\ proc.rev # lock => /\ tree[<<"lib", 0>>].mark # lock
                        /\ \A p \in Pairs : pair[p].rev # lock

\* A directory with a marker is whole, or its removal was begun, and then the marker is not
\* of the version the lock pins.  A toolchain is removed only where there is none.
TreeOk == \A p \in MarkedPlaces : tree[p].mark # 0 =>
    \/ tree[p] = WholeTree(tree[p].mark)
    \/ (torn \/ Removing(p)) /\ Other(tree[p].mark)
RemoveOk == At("Unpack", "remove") => Other(T.mark) /\ (Of = "gcc" => T = Nothing)
GccOk == \A v \in Versions : tree[<<"gcc", v>>] \in {Nothing, WholeTree(v)}

\* The same of the generated views and their revision files.
PairOk == \A p \in Pairs :
  /\ pair[p].out = 0 => pair[p].rev = 0
  /\ pair[p].rev # 0 => \/ pair[p].out = pair[p].rev
                        \/ (torn \/ Writing(p)) /\ Other(pair[p].rev)

\* And of the environment and its stamp, which only the development environment has.
EnvOk == /\ job # "environment" => env.stamp = 0
         /\ env.stamp # 0 => \/ env.packages = env.stamp
                             \/ (torn \/ Piping) /\ Other(env.stamp)

\* What a step may rely on, made by the steps before it.
HeadOk  == At("Git", "submodule") => R.head = Want
FatfsOk == At("Extract_fatfs", "extract") /\ proc.update => \A i \in Pieces : T.files[i] \in {0, Want}
PdkOk   == Running /\ job \in PdkJobs /\ Of # "pll" =>
             IF proc.pc = 1 THEN Want = proc.rev ELSE repo["pdk"].head = proc.rev
ViewOk  == Writing(Of) => pair[Of].out = proc.rev
StampOk == Running /\ Here.op = "Write_stamp" => env.packages = Want

------------------------------------------------------------------------------
(* What a step does to the marked directories.                             *)

LEMMA MarkedPlace ==
  ASSUME ProcOk
  PROVE  /\ \A t \in MarkedTrees : Place(t) \in MarkedPlaces
         /\ <<"lib", 0>> \in MarkedPlaces /\ <<"sram", 0>> \in MarkedPlaces
         /\ \A v \in Versions : <<"gcc", v>> \in MarkedPlaces
         /\ Place("lib") = <<"lib", 0>> /\ Place("gcc") = <<"gcc", Want>>
         /\ \A t \in Trees \ MarkedTrees : Place(t) \notin MarkedPlaces
BY DEF MarkedPlaces, MarkedTrees, Place, Places, Trees, ProcOk, ProcType, Want

\* A removal that has begun goes on, until nothing is left.
LEMMA RemoveOldStep ==
  ASSUME Types, Remove_old
  PROVE  /\ Here.op = "Unpack" /\ Of \in MarkedTrees /\ Running /\ proc.at = "remove"
         /\ \/ /\ tree' = [tree EXCEPT ![Place(Of)] = [T EXCEPT !.mark = 0]]
               /\ pair' = pair /\ proc' = proc /\ T.mark # 0
            \/ /\ \E i \in Pieces :
                     /\ T.files[i] # 0
                     /\ tree' = [tree EXCEPT ![Place(Of)] = [T EXCEPT !.files[i] = 0]]
               /\ pair' = pair /\ proc' = proc
            \/ /\ Of = "lib" /\ tree' = [tree EXCEPT ![<<"sram", 0>>] = Nothing]
               /\ pair' = [pair EXCEPT !["cells"] = [out |-> 0, rev |-> 0]] /\ proc' = proc
            \/ /\ tree' = [tree EXCEPT ![Place(Of)] = Nothing] /\ pair' = pair
               /\ Stays /\ proc'.at = "replace"
         /\ torn' = torn
<1>1. ProcOk /\ Here.op = "Unpack" /\ Running /\ proc.at = "remove" /\ torn' = torn
  BY DEF Types, Remove_old, At, Remove
<1>2. Of \in MarkedTrees
  BY <1>1, StepOf
<1>3. proc' = [proc EXCEPT !.at = "replace"] => Stays /\ proc'.at = "replace"
  BY <1>1 DEF ProcOk, ProcType, IsProc, Stays, SameRun
<1>4. \/ T.mark # 0 /\ tree' = [tree EXCEPT ![Place(Of)] = [T EXCEPT !.mark = 0]]
         /\ pair' = pair /\ proc' = proc
      \/ \E i \in Pieces : /\ T.files[i] # 0
                           /\ tree' = [tree EXCEPT ![Place(Of)] = [T EXCEPT !.files[i] = 0]]
                           /\ pair' = pair /\ proc' = proc
      \/ /\ Of = "lib" /\ tree' = [tree EXCEPT ![<<"sram", 0>>] = Nothing]
         /\ pair' = [pair EXCEPT !["cells"] = [out |-> 0, rev |-> 0]] /\ proc' = proc
      \/ /\ T.mark = 0 /\ tree' = [tree EXCEPT ![Place(Of)] = Nothing] /\ pair' = pair
         /\ proc' = [proc EXCEPT !.at = "replace"]
  BY DEF Remove_old, Remove, SetTree
<1> QED BY <1>1, <1>2, <1>3, <1>4

LEMMA ReplaceTreeStep ==
  ASSUME Types, Replace_tree
  PROVE  /\ Here.op = "Unpack" /\ Of \in MarkedTrees /\ Running /\ proc.at = "replace"
         /\ tree' = [tree EXCEPT ![Place(Of)] = [WholeTree(Want) EXCEPT !.mark = Marker]]
         /\ Advances(1)
<1>1. ProcOk /\ Here.op = "Unpack" /\ Running /\ proc.at = "replace" /\ job' = job
  BY DEF Types, Replace_tree, At, Frame
<1>2. Of \in MarkedTrees
  BY <1>1, StepOf
<1>3. archive[ArchiveOf(Of)][1] = Want
  BY <1>1, <1>2, FirstPiece DEF FromArchive, Source, MarkedTrees
<1>4. tree' = [tree EXCEPT ![Place(Of)] =
                [there |-> TRUE, mark |-> Marker, files |-> [i \in Pieces |-> Want]]]
  BY <1>3 DEF Replace_tree, SetTree
<1>5. Advances(1)
  BY <1>1, JumpControl DEF Replace_tree
<1> QED BY <1>1, <1>2, <1>4, <1>5 DEF WholeTree

LEMMA OtherTreesStep ==
  ASSUME Types, Continue \/ Cut, ~Remove_old, ~Replace_tree
  PROVE  \/ tree' = tree
         \/ /\ Of \in Trees \ MarkedTrees /\ \E r : tree' = [tree EXCEPT ![Place(Of)] = r]
            /\ Here.op \in {"Extract_fatfs", "Patch_fatfs", "Extract_serv", "Patch_serv",
                            "Sync_tree", "Extract_vww_jpegs", "Decode_vww_bins"}
<1>0. ProcOk
  BY DEF Types
<1>1. Here.op \in {"Extract_fatfs", "Patch_fatfs", "Extract_serv", "Patch_serv", "Sync_tree",
                   "Extract_vww_jpegs", "Decode_vww_bins"} => Of \in Trees \ MarkedTrees
  BY <1>0, StepOf DEF Trees, MarkedTrees
<1>2. CASE Remove_fatfs \/ Remove_core
  <2>1. Here.op \in {"Extract_fatfs", "Sync_tree"} /\ Of # "lib"
    BY <1>0, <1>2, OpOfStep, StepOf
  <2>2. \E r : tree' = [tree EXCEPT ![Place(Of)] = r]
    BY <1>2, <2>1 DEF Remove_fatfs, Remove_core, Remove, SetTree
  <2> QED BY <1>1, <2>1, <2>2
<1>3. CASE Extractall \/ Patch \/ Copytree \/ Write_jpeg \/ Write_bin
  <2>1. Here.op \in {"Extract_fatfs", "Patch_fatfs", "Extract_serv", "Patch_serv", "Sync_tree",
                     "Extract_vww_jpegs", "Decode_vww_bins"}
    BY <1>3, OpOfStep
  <2>2. tree' = tree \/ \E r : SetTree(r)
    BY <1>3 DEF Extractall, Writes_file, Patch, Copytree, Write_jpeg, Write_bytes, Write_bin, disk
  <2> QED BY <1>1, <2>1, <2>2 DEF SetTree
<1> QED BY <1>2, <1>3, Writers

\* A marked directory is left alone, or loses its marker, or is being removed, or is new.
LEMMA TreeStep ==
  ASSUME Types, Continue \/ Cut, NEW p \in MarkedPlaces
  PROVE  \/ tree'[p] = tree[p]
         \/ tree'[p].mark = 0
         \/ tree'[p].mark = tree[p].mark /\ Removing(p) /\ proc' = proc
         \/ /\ tree'[p] = WholeTree(Want) /\ p = Place(Of) /\ Here.op = "Unpack"
            /\ Of = "lib" => proc.rev = Want
<1>0. ProcOk /\ TreesOk /\ p \in Places
  BY DEF Types, DiskOk, MarkedPlaces
<1>1. CASE Remove_old
  <2>1. \/ tree' = [tree EXCEPT ![Place(Of)] = [T EXCEPT !.mark = 0]]
        \/ \E i \in Pieces :
              /\ tree' = [tree EXCEPT ![Place(Of)] = [T EXCEPT !.files[i] = 0]] /\ proc' = proc
        \/ tree' = [tree EXCEPT ![<<"sram", 0>>] = Nothing]
        \/ tree' = [tree EXCEPT ![Place(Of)] = Nothing]
    BY <1>1, RemoveOldStep
  <2>2. Of \in Trees /\ Place(Of) \in Places /\ TreeOf(T)
    BY <1>0, <1>1, RemoveOldStep, PlaceHere, TreeHere
  <2>3. CASE tree' = [tree EXCEPT ![Place(Of)] = [T EXCEPT !.mark = 0]]
    BY <1>0, <2>2, <2>3 DEF TreeOf, TreeType, TreesOk
  <2>4. ASSUME NEW i \in Pieces, tree' = [tree EXCEPT ![Place(Of)] = [T EXCEPT !.files[i] = 0]],
               proc' = proc
        PROVE  tree'[p] = tree[p] \/ (tree'[p].mark = tree[p].mark /\ Removing(p) /\ proc' = proc)
    <3>1. CASE p = Place(Of)
      <4>1. tree'[p] = [T EXCEPT !.files[i] = 0] /\ T = tree[p]
        BY <1>0, <2>4, <3>1 DEF TreesOk, T
      <4>2. tree'[p].mark = tree[p].mark
        BY <2>2, <4>1 DEF TreeOf, TreeType
      <4> QED BY <1>1, <2>4, <3>1, <4>2, RemoveOldStep DEF Removing, At
    <3>2. CASE p # Place(Of)
      BY <1>0, <2>4, <3>2 DEF TreesOk
    <3> QED BY <3>1, <3>2
  <2>6. CASE tree' = [tree EXCEPT ![<<"sram", 0>>] = Nothing]
    BY <1>0, <2>6 DEF TreesOk, Nothing
  <2>7. CASE tree' = [tree EXCEPT ![Place(Of)] = Nothing]
    BY <1>0, <2>7 DEF TreesOk, Nothing
  <2> QED BY <2>1, <2>3, <2>4, <2>6, <2>7
<1>2. CASE Replace_tree
  <2>1. /\ tree' = [tree EXCEPT ![Place(Of)] = [WholeTree(Want) EXCEPT !.mark = Marker]]
        /\ Here.op = "Unpack" /\ Of \in MarkedTrees
    BY <1>2, ReplaceTreeStep
  <2>2. CASE p = Place(Of)
    <3>1. tree'[p] = [WholeTree(Want) EXCEPT !.mark = Marker]
      BY <1>0, <2>1, <2>2 DEF TreesOk
    <3>2. CASE Of = "lib" /\ proc.rev # Want
      BY <3>1, <3>2 DEF Marker, WholeTree
    <3>3. CASE ~(Of = "lib" /\ proc.rev # Want)
      BY <2>1, <2>2, <3>1, <3>3 DEF Marker, WholeTree
    <3> QED BY <3>2, <3>3
  <2>3. CASE p # Place(Of)
    BY <1>0, <2>1, <2>3 DEF TreesOk
  <2> QED BY <2>2, <2>3
<1>3. CASE ~Remove_old /\ ~Replace_tree
  BY <1>0, <1>3, OtherTreesStep, MarkedPlace DEF TreesOk
<1> QED BY <1>1, <1>2, <1>3

------------------------------------------------------------------------------
(* What a step does to the generated views and to the environment.         *)

LEMMA PairStep ==
  ASSUME Types, Continue \/ Cut, NEW p \in Pairs
  PROVE  \/ pair'[p] = pair[p]
         \/ pair'[p].out = 0 /\ pair'[p].rev = 0 /\ Here.op = "Unpack" /\ Of = "lib"
         \/ /\ p = Of /\ Here.op \in PairOps
            /\ pair'[p].out = repo["pdk"].head /\ pair'[p].rev = pair[p].rev
            /\ Stays /\ proc'.at = "revision"
            /\ Here.op = "Generate_liberty" => pair[p].out = 0 \/ pair[p].rev # proc.rev
         \/ /\ Writing(p) /\ pair'[p].out = pair[p].out /\ pair'[p].rev = proc.rev /\ Advances(1)
<1>0. ProcOk /\ pair \in [Pairs -> PairType] /\ job' = job
  BY FrameKept DEF Types, DiskOk
<1>1. CASE pair' = pair
  BY <1>1
<1>2. CASE Remove_old \/ Remove_fatfs \/ Remove_core
  <2>1. \/ pair' = pair
        \/ Of = "lib" /\ pair' = [pair EXCEPT !["cells"] = [out |-> 0, rev |-> 0]]
    BY <1>2 DEF Remove_old, Remove_fatfs, Remove_core, Remove, SetTree
  <2>2. Of = "lib" => Here.op = "Unpack"
    BY <1>0, <1>2, OpOfStep, StepOf
  <2> QED BY <1>0, <2>1, <2>2
<1>3. CASE Generate_liberty \/ Prepare_sim_model
  <2>1. Here.op \in PairOps /\ Of \in Pairs
    BY <1>0, <1>3, StepOf DEF Generate_liberty, Prepare_sim_model, At, PairOps
  <2>2. \/ pair' = pair
        \/ /\ SetPair([pair[Of] EXCEPT !.out = repo["pdk"].head]) /\ Go("revision")
           /\ Here.op = "Generate_liberty" => pair[Of].out = 0 \/ pair[Of].rev # proc.rev
    BY <1>3, OpOfStep DEF Generate_liberty, Prepare_sim_model, disk
  <2>3. Go("revision") => Stays /\ proc'.at = "revision"
    BY <1>0, GoControl
  <2>4. CASE SetPair([pair[Of] EXCEPT !.out = repo["pdk"].head]) /\ p = Of
    <3>1. pair'[p] = [pair[p] EXCEPT !.out = repo["pdk"].head] /\ pair[p] \in PairType
      BY <1>0, <2>4 DEF SetPair
    <3>2. pair'[p].out = repo["pdk"].head /\ pair'[p].rev = pair[p].rev
      BY <3>1 DEF PairType
    <3> QED BY <2>1, <2>2, <2>3, <2>4, <3>2
  <2>5. CASE SetPair([pair[Of] EXCEPT !.out = repo["pdk"].head]) /\ p # Of
    BY <1>0, <2>1, <2>5 DEF SetPair
  <2> QED BY <2>2, <2>4, <2>5
<1>4. CASE Write_revision
  <2>1. Running /\ Here.op \in PairOps /\ Of \in Pairs /\ proc.at = "revision"
    BY <1>0, <1>4, StepOf DEF Write_revision, PairOps
  <2>2. pair' = [pair EXCEPT ![Of] = [pair[Of] EXCEPT !.rev = proc.rev]] /\ Advances(1)
    BY <1>0, <1>4, JumpControl DEF Write_revision, SetPair
  <2>3. CASE p = Of
    <3>1. pair'[p] = [pair[p] EXCEPT !.rev = proc.rev] /\ pair[p] \in PairType
      BY <1>0, <2>2, <2>3
    <3>2. pair'[p].out = pair[p].out /\ pair'[p].rev = proc.rev
      BY <3>1 DEF PairType
    <3> QED BY <2>1, <2>2, <2>3, <3>2 DEF Writing
  <2> QED BY <1>0, <2>2, <2>3
<1> QED BY <1>1, <1>2, <1>3, <1>4, Writers

LEMMA EnvStep ==
  ASSUME Types, Continue \/ Cut
  PROVE  \/ env'.packages = env.packages /\ env'.stamp = env.stamp
         \/ /\ Here.op = "Pip" /\ env'.stamp = env.stamp /\ env.packages # Want /\ Stays
         \/ /\ Here.op = "Pip" /\ env'.stamp = env.stamp /\ env'.packages = Want /\ Advances(1)
         \/ /\ Here.op = "Write_stamp" /\ env'.stamp = Want /\ env'.packages = env.packages
            /\ Advances(1)
<1>0. ProcOk /\ env \in EnvType /\ job' = job
  BY FrameKept DEF Types, DiskOk
<1>1. CASE env' = env
  BY <1>1
<1>2. CASE Create_virtualenv \/ Ensure_pip \/ Write_activation
  <2>1. \/ env' = env \/ env' = [env EXCEPT !.python = TRUE] \/ env' = [env EXCEPT !.pip = TRUE]
        \/ env' = [env EXCEPT !.active = Want]
    BY <1>2 DEF Create_virtualenv, Ensure_pip, Write_activation, SetEnv, disk
  <2> QED BY <1>0, <2>1 DEF EnvType
<1>3. CASE Pip_install
  <2>1. \/ env' = env
        \/ /\ \E half \in IF env.packages = Want THEN {Want} ELSE {Wrong, Broken} :
                SetEnv([env EXCEPT !.packages = half])
           /\ Go("packages")
    BY <1>3 DEF Pip_install, disk
  <2>2. CASE env.packages = Want
    BY <1>0, <2>1, <2>2 DEF SetEnv, EnvType
  <2>3. CASE env.packages # Want
    BY <1>0, <1>3, <2>1, <2>3, GoControl, OpOfStep DEF SetEnv, EnvType
  <2> QED BY <2>2, <2>3
<1>4. CASE Pip_ends
  <2>1. env' = env \/ (env' = [env EXCEPT !.packages = Want] /\ Jump(1))
    BY <1>4 DEF Pip_ends, SetEnv, disk
  <2> QED BY <1>0, <1>4, <2>1, OpOfStep, JumpControl DEF EnvType
<1>5. CASE Write_stamp
  <2>1. env' = [env EXCEPT !.stamp = Want] /\ Jump(1)
    BY <1>5 DEF Write_stamp, SetEnv
  <2> QED BY <1>0, <1>5, <2>1, OpOfStep, JumpControl DEF EnvType
<1> QED BY <1>1, <1>2, <1>3, <1>4, <1>5, Writers

\* What a step keeps of the control.
LEMMA ControlKeeps ==
  ASSUME Types, Continue \/ Cut
  PROVE  /\ Control /\ UNCHANGED <<job, lock, past, reverted>> /\ Running /\ ProcOk
         /\ Want' \in {Want, lock} /\ proc'.rev \in {proc.rev, lock}
         /\ proc'.steady = proc.steady /\ (torn => torn')
         /\ \A v : Other(v)' <=> Other(v)
<1>1. Control /\ UNCHANGED <<job, lock, past, reverted>> /\ Running /\ ProcOk
  BY ControlStep, OpOfStep DEF Types
<1>2. \A n \in {1, 3, 6} : Advances(n) =>
        /\ proc'.want \in {proc.want, lock} /\ proc'.rev \in {proc.rev, lock}
        /\ proc'.steady = proc.steady /\ torn' = torn
  BY DEF Advances, Moves
<1>3. /\ proc'.want \in {proc.want, lock} /\ proc'.rev \in {proc.rev, lock}
      /\ proc'.steady = proc.steady /\ (torn => torn')
  BY <1>1, <1>2 DEF Control, Stays, SameRun, Fails
<1> QED BY <1>1, <1>3 DEF Want, Other

------------------------------------------------------------------------------
(* The markers.                                                            *)

LEMMA KnownStep ==
  ASSUME Types, Known, Continue \/ Cut
  PROVE  Known'
<1>0. /\ {lock, Want, proc.rev} \subseteq past /\ past' = past
      /\ {lock, Want, proc.rev}' \subseteq past
  BY ControlKeeps DEF Known, Want
<1>1. ASSUME NEW p \in MarkedPlaces PROVE tree'[p].mark \in past \cup {0}
  BY <1>0, TreeStep DEF Known, WholeTree
<1>2. ASSUME NEW p \in Pairs PROVE pair'[p].rev \in past \cup {0}
  <2>1. pair'[p].rev \in {pair[p].rev, 0, proc.rev}
    BY PairStep
  <2> QED BY <1>0, <2>1 DEF Known
<1>3. env'.stamp \in past \cup {0}
  BY <1>0, EnvStep DEF Known
<1> QED BY <1>0, <1>1, <1>2, <1>3 DEF Known, MarkedPlaces, Want

LEMMA FreshStep ==
  ASSUME Types, Fresh, Continue \/ Cut
  PROVE  Fresh'
<1> SUFFICES ASSUME Running', ~reverted'
             PROVE  /\ Want' # lock' => env'.stamp # lock' /\ \A p \in MarkedPlaces : tree'[p].mark # lock'
                    /\ proc'.rev # lock' => /\ tree'[<<"lib", 0>>].mark # lock'
                                            /\ \A p \in Pairs : pair'[p].rev # lock'
  BY DEF Fresh, MarkedPlaces
<1>0. /\ Running /\ ~reverted /\ lock' = lock /\ Want' \in {Want, lock} /\ lock # 0
      /\ proc'.rev \in {proc.rev, lock} /\ ProcOk
  BY ControlKeeps DEF ProcOk, Versions
<1>1. ASSUME Want' # lock
      PROVE  env'.stamp # lock /\ \A p \in MarkedPlaces : tree'[p].mark # lock
  <2>1. Want # lock /\ env.stamp # lock /\ \A p \in MarkedPlaces : tree[p].mark # lock
    BY <1>0, <1>1 DEF Fresh
  <2>2. env'.stamp # lock
    BY <2>1, EnvStep
  <2>3. \A p \in MarkedPlaces : tree'[p].mark # lock
    BY <1>0, <2>1, TreeStep DEF WholeTree
  <2> QED BY <2>2, <2>3
<1>2. ASSUME proc'.rev # lock
      PROVE  tree'[<<"lib", 0>>].mark # lock /\ \A p \in Pairs : pair'[p].rev # lock
  <2>1. proc.rev # lock /\ tree[<<"lib", 0>>].mark # lock /\ \A p \in Pairs : pair[p].rev # lock
    BY <1>0, <1>2 DEF Fresh
  <2>2. ASSUME NEW p \in Pairs PROVE pair'[p].rev # lock
    <3>1. pair'[p].rev \in {pair[p].rev, 0, proc.rev}
      BY PairStep
    <3> QED BY <1>0, <2>1, <3>1
  <2>3. tree'[<<"lib", 0>>].mark # lock
    <3>1. <<"lib", 0>> \in MarkedPlaces /\ (<<"lib", 0>> = Place(Of) => Of = "lib")
      BY <1>0, MarkedPlace DEF Place
    <3> QED BY <1>0, <2>1, <3>1, TreeStep DEF WholeTree
  <2> QED BY <2>2, <2>3
<1> QED BY <1>0, <1>1, <1>2

LEMMA RemovingStep ==
  ASSUME Types, Continue \/ Cut, At("Unpack", "remove")
  PROVE  Remove_old
BY StepOfOp DEF At, Unpack, Replace_tree

LEMMA TreeOkStep ==
  ASSUME Types, TreeOk, RemoveOk, Continue \/ Cut
  PROVE  TreeOk'
<1>0. /\ ProcOk /\ UNCHANGED <<job, lock, reverted>> /\ (torn => torn')
      /\ \A v : Other(v)' <=> Other(v)
  BY ControlKeeps
<1> SUFFICES ASSUME NEW p \in MarkedPlaces, tree'[p].mark # 0
             PROVE  \/ tree'[p] = WholeTree(tree'[p].mark)
                    \/ (torn' \/ Removing(p)') /\ Other(tree'[p].mark)
  BY <1>0 DEF TreeOk, MarkedPlaces, Other
<1>1. proc' = proc /\ Removing(p) => Removing(p)'
  BY <1>0 DEF Removing, At, Running, Here, Of, Place, Want
<1>2. CASE tree'[p] = tree[p]
  <2>1. CASE Removing(p)
    <3>1. Remove_old /\ T = tree[p]
      BY <2>1, RemovingStep DEF Removing, T
    <3>2. proc' = proc \/ tree' = [tree EXCEPT ![Place(Of)] = Nothing]
      BY <3>1, RemoveOldStep
    <3>3. tree' = [tree EXCEPT ![Place(Of)] = Nothing] => tree'[p] = Nothing
      BY <2>1 DEF Types, DiskOk, TreesOk, MarkedPlaces, Removing
    <3>4. proc' = proc
      BY <3>2, <3>3 DEF Nothing
    <3> QED BY <1>1, <1>2, <2>1, <3>1, <3>4 DEF RemoveOk, Removing
  <2> QED BY <1>0, <1>2, <2>1 DEF TreeOk
<1>3. CASE tree'[p].mark = tree[p].mark /\ Removing(p) /\ proc' = proc
  BY <1>1, <1>3 DEF RemoveOk, Removing, T
<1>4. CASE tree'[p] = WholeTree(Want)
  BY <1>4 DEF WholeTree
<1> QED BY <1>2, <1>3, <1>4, TreeStep

\* The steps into a removal: the marker is not the one the program is to leave.
LEMMA RemoveBegins ==
  ASSUME Types, Fresh, TreeOk, GccOk, Unpack, Go("remove")
  PROVE  Other(T.mark) /\ (Of = "gcc" => T = Nothing)
<1>0. /\ ProcOk /\ Running /\ Here.op = "Unpack" /\ proc.at = "start" /\ Of \in MarkedTrees
      /\ Place(Of) \in MarkedPlaces /\ Want \in Versions /\ ~Fail
  <2>1. ProcOk /\ Running /\ Here.op = "Unpack" /\ proc.at = "start" /\ job' = job
    BY DEF Types, Unpack, At, Frame
  <2>2. ~Fail
    BY <2>1, FailControl, GoControl DEF Fails, Stays, SameRun, Running
  <2> QED BY <2>1, <2>2, StepOf, MarkedPlace DEF ProcOk, ProcType, Want
<1>1. ~Jump(1)
  <2>1. Jump(1) => Advances(1)
    BY <1>0, JumpControl DEF Unpack, Frame
  <2>2. proc'.at = "remove"
    BY <1>0, GoControl DEF Unpack, Frame
  <2> QED BY <2>1, <2>2 DEF Advances, Moves
<1>2. CASE T.mark # Want
  <2>1. Want # lock /\ ~reverted => T.mark # lock
    BY <1>0 DEF Fresh, T
  <2>2. Other(T.mark)
    BY <1>2, <2>1 DEF Other
  <2>3. Of = "gcc" => T = Nothing
    <3>1. Of = "gcc" => T = tree[<<"gcc", Want>>]
      BY DEF T, Place
    <3>2. WholeTree(Want).mark = Want
      BY DEF WholeTree
    <3> QED BY <1>0, <1>2, <3>1, <3>2 DEF GccOk
  <2> QED BY <2>2, <2>3
<1>3. CASE T.mark = Want
  <2>1. Prepare_ics55_liberty
    BY <1>0, <1>1, <1>3 DEF Unpack, Install, Install_archive, Prepare_sky130_sram
  <2>2. Of = "lib" /\ ~(T.mark = Marker /\ Marker # 0 /\ Complete(T))
    BY <1>1, <2>1 DEF Prepare_ics55_liberty
  <2>3. CASE proc.rev = Want
    <3>1. ~Complete(T) /\ T.mark # 0
      BY <1>0, <1>3, <2>2, <2>3 DEF Marker, Versions
    <3>2. T # WholeTree(T.mark)
      BY <3>1 DEF WholeTree, Complete
    <3> QED BY <1>0, <2>2, <3>1, <3>2 DEF TreeOk, T
  <2>4. CASE proc.rev # Want
    <3>1. proc.rev # lock /\ ~reverted => tree[<<"lib", 0>>].mark # lock
      BY <1>0 DEF Fresh
    <3>2. Want # lock /\ ~reverted => T.mark # lock
      BY <1>0 DEF Fresh, T
    <3>3. T = tree[<<"lib", 0>>]
      BY <2>2 DEF T, Place
    <3> QED BY <2>2, <2>4, <3>1, <3>2, <3>3 DEF Other
  <2> QED BY <2>3, <2>4
<1> QED BY <1>2, <1>3

LEMMA RemoveOkStep ==
  ASSUME Types, Fresh, TreeOk, GccOk, RemoveOk, Continue \/ Cut
  PROVE  RemoveOk'
<1>0. /\ ProcOk /\ UNCHANGED <<job, lock, reverted>> /\ Control /\ \A v : Other(v)' <=> Other(v)
  BY ControlKeeps
<1> SUFFICES ASSUME At("Unpack", "remove")'
             PROVE  Other(T'.mark) /\ (Of' = "gcc" => T' = Nothing)
  BY <1>0 DEF RemoveOk, Other
<1>1. Running' /\ Here'.op = "Unpack" /\ proc'.at = "remove"
  BY DEF At
<1>2. Stays
  BY <1>0, <1>1 DEF Control, Advances, Moves, Fails
<1>3. Here' = Here /\ Of' = Of /\ Place(Of)' = Place(Of) /\ T' = tree'[Place(Of)]
  BY <1>0, <1>2, SameHere DEF Stays, T
<1>4. Here.op = "Unpack"
  BY <1>1, <1>3
<1>5. CASE Unpack
  <2>1. T' = T /\ Go("remove")
    <3>1. tree' = tree
      BY <1>5 DEF Unpack, disk
    <3>2. Fail \/ Jump(1) \/ Go("remove")
      BY <1>5 DEF Unpack, Install, Install_archive, Prepare_sky130_sram, Prepare_ics55_liberty
    <3>3. ~Fail /\ ~Jump(1)
      BY <1>0, <1>1, JumpControl, FailControl DEF Advances, Moves, Fails
    <3> QED BY <1>3, <3>1, <3>2, <3>3 DEF T
  <2> QED BY <1>3, <1>5, <2>1, RemoveBegins
<1>6. CASE Remove_old
  <2>1. At("Unpack", "remove") /\ Of \in MarkedTrees /\ Place(Of) \in Places /\ TreeOf(T)
    BY <1>0, <1>6, RemoveOldStep, PlaceHere, TreeHere DEF At, Types, DiskOk
  <2>2. Other(T.mark) /\ (Of = "gcc" => T = Nothing) /\ Other(0)
    BY <1>0, <2>1 DEF RemoveOk, Other, ProcOk, Versions
  <2>3. tree \in [Places -> TreeType]
    BY DEF Types, DiskOk, TreesOk
  <2>4. CASE tree' = [tree EXCEPT ![Place(Of)] = [T EXCEPT !.mark = 0]] /\ T.mark # 0
    <3>1. T' = [T EXCEPT !.mark = 0]
      BY <1>3, <2>1, <2>3, <2>4
    <3>2. T'.mark = 0
      BY <2>1, <3>1 DEF TreeOf, TreeType
    <3> QED BY <1>3, <2>2, <2>4, <3>2 DEF Nothing
  <2>5. ASSUME NEW i \in Pieces, T.files[i] # 0,
               tree' = [tree EXCEPT ![Place(Of)] = [T EXCEPT !.files[i] = 0]]
        PROVE  Other(T'.mark) /\ (Of' = "gcc" => T' = Nothing)
    <3>1. T' = [T EXCEPT !.files[i] = 0]
      BY <1>3, <2>1, <2>3, <2>5
    <3>2. T'.mark = T.mark
      BY <2>1, <3>1 DEF TreeOf, TreeType
    <3> QED BY <1>3, <2>2, <2>5, <3>2 DEF Nothing
  <2>6. CASE Of = "lib" /\ tree' = [tree EXCEPT ![<<"sram", 0>>] = Nothing]
    <3>1. T' = T
      BY <1>3, <2>1, <2>3, <2>6 DEF T, Place
    <3> QED BY <1>3, <2>2, <2>6, <3>1
  <2>7. CASE tree' = [tree EXCEPT ![Place(Of)] = Nothing]
    <3>1. T' = Nothing
      BY <1>3, <2>1, <2>3, <2>7
    <3> QED BY <2>2, <3>1 DEF Nothing
  <2> QED BY <1>6, <2>4, <2>5, <2>6, <2>7, RemoveOldStep
<1>7. CASE Replace_tree
  BY <1>1, <1>7, ReplaceTreeStep DEF Advances, Moves
<1> QED BY <1>4, <1>5, <1>6, <1>7, StepOfOp

LEMMA GccOkStep ==
  ASSUME Types, GccOk, RemoveOk, Continue \/ Cut
  PROVE  GccOk'
<1>0. ProcOk /\ tree \in [Places -> TreeType]
  BY DEF Types, DiskOk, TreesOk
<1> SUFFICES ASSUME NEW v \in Versions PROVE tree'[<<"gcc", v>>] \in {Nothing, WholeTree(v)}
  BY DEF GccOk, Nothing, WholeTree
<1> DEFINE p == <<"gcc", v>>
<1>1. p \in MarkedPlaces /\ p \in Places /\ tree[p] \in {Nothing, WholeTree(v)}
  BY <1>0, MarkedPlace DEF GccOk, MarkedPlaces
<1>2. p = Place(Of) => Of = "gcc" /\ v = Want
  BY DEF Place
<1> HIDE DEF p
<1>3. CASE Remove_old
  <2>1. CASE p = Place(Of)
    <3>1. T = Nothing
      BY <1>2, <1>3, <2>1, RemoveOldStep DEF RemoveOk, At
    <3>2. T.mark = 0 /\ \A i \in Pieces : T.files[i] = 0
      BY <3>1 DEF Nothing
    <3>3. tree' = [tree EXCEPT ![Place(Of)] = Nothing]
      BY <1>2, <1>3, <2>1, <3>2, RemoveOldStep
    <3> QED BY <1>0, <1>1, <2>1, <3>3 DEF p
  <2>2. CASE p # Place(Of)
    <3>1. p # <<"sram", 0>>
      BY DEF p
    <3>2. tree'[p] = tree[p]
      BY <1>0, <1>1, <1>3, <2>2, <3>1, RemoveOldStep
    <3> QED BY <1>1, <3>2 DEF p
  <2> QED BY <2>1, <2>2
<1>4. CASE Replace_tree
  <2>1. tree' = [tree EXCEPT ![Place(Of)] = [WholeTree(Want) EXCEPT !.mark = Marker]]
    BY <1>4, ReplaceTreeStep
  <2>2. CASE p = Place(Of)
    BY <1>0, <1>1, <1>2, <2>1, <2>2 DEF Marker, WholeTree, p
  <2>3. CASE p # Place(Of)
    BY <1>0, <1>1, <2>1, <2>3 DEF p
  <2> QED BY <2>2, <2>3
<1>5. CASE ~Remove_old /\ ~Replace_tree
  <2>1. tree'[p] = tree[p]
    BY <1>0, <1>1, <1>5, OtherTreesStep, MarkedPlace
  <2> QED BY <1>1, <2>1 DEF p
<1> QED BY <1>3, <1>4, <1>5

------------------------------------------------------------------------------
(* What the steps rely on.                                                 *)

LEMMA RepoStep ==
  ASSUME Types, Continue \/ Cut, NEW r \in Repos
  PROVE  \/ repo'[r].head = repo[r].head /\ repo'[r].sub = repo[r].sub
         \/ /\ r = Of /\ Here.op = "Git" /\ Stays /\ proc'.at = "submodule"
            /\ repo'[r].head = Want
         \/ /\ r = Of /\ Here.op = "Git" /\ proc.at = "submodule" /\ Advances(1)
            /\ repo'[r].head = repo[r].head
         \/ r = Of /\ Here.op = "Repair"
<1>0. ProcOk /\ repo \in [Repos -> RepoType] /\ job' = job /\ repo[r] \in RepoType
  BY FrameKept DEF Types, DiskOk
<1>1. CASE repo' = repo
  BY <1>1
<1>2. CASE Git_init \/ Git_checkout \/ Git_submodule \/ Repair_incomplete_checkout \/ Patch_coremark
  <2>1. Of \in Repos /\ R = repo[Of]
    BY <1>0, <1>2, OpOfStep, StepOf DEF R, Repos
  <2>2. repo' = repo \/ \E x : SetRepo(x)
    BY <1>2 DEF Git_init, Git_checkout, Git_submodule, Repair_incomplete_checkout, Patch_coremark,
       disk
  <2>3. CASE r # Of
    BY <1>0, <2>2, <2>3 DEF SetRepo
  <2>4. ASSUME r = Of PROVE R \in RepoType /\ R = repo[r] /\ \A x : SetRepo(x) => repo'[r] = x
    BY <1>0, <2>1, <2>4 DEF SetRepo
  <2>5. CASE r = Of /\ Git_init
    <3>1. repo'[r] = [R EXCEPT !.git = TRUE]
      BY <2>4, <2>5 DEF Git_init
    <3> QED BY <2>4, <2>5, <3>1 DEF RepoType
  <2>6. CASE r = Of /\ Git_checkout
    <3>1. repo' = repo \/ (repo'[r] = [R EXCEPT !.head = Want] /\ Go("submodule"))
      BY <2>4, <2>6 DEF Git_checkout, disk
    <3> QED BY <1>0, <1>1, <2>4, <2>6, <3>1, GoControl, OpOfStep DEF RepoType
  <2>7. CASE r = Of /\ Git_submodule
    <3>1. repo' = repo \/ repo'[r] = [R EXCEPT !.sub = R.head]
      BY <2>4, <2>7 DEF Git_submodule, disk
    <3>2. Jump(1) /\ proc.at = "submodule"
      BY <2>7 DEF Git_submodule, At
    <3> QED BY <1>0, <1>1, <2>4, <2>7, <3>1, <3>2, JumpControl, OpOfStep DEF RepoType
  <2>8. CASE r = Of /\ Repair_incomplete_checkout
    BY <2>8, OpOfStep
  <2>9. CASE r = Of /\ Patch_coremark
    <3> DEFINE n == IF R.patched = 2 THEN 2 ELSE R.patched + 1
    <3>1. SetRepo([R EXCEPT !.patched = n])
      BY <2>9 DEF Patch_coremark
    <3> HIDE DEF n
    <3>2. repo'[r] = [R EXCEPT !.patched = n]
      BY <2>4, <2>9, <3>1
    <3> QED BY <2>4, <2>9, <3>2 DEF RepoType
  <2> QED BY <1>2, <2>3, <2>5, <2>6, <2>7, <2>8, <2>9
<1> QED BY <1>1, <1>2, Writers

LEMMA HeadOkStep ==
  ASSUME Types, HeadOk, Continue \/ Cut
  PROVE  HeadOk'
<1>0. ProcOk /\ UNCHANGED <<job, lock>> /\ Control
  BY ControlKeeps
<1> SUFFICES ASSUME At("Git", "submodule")' PROVE R'.head = Want'
  BY DEF HeadOk
<1>1. Running' /\ Here'.op = "Git" /\ proc'.at = "submodule"
  BY DEF At
<1>2. Stays
  BY <1>0, <1>1 DEF Control, Advances, Moves, Fails
<1>3. Here' = Here /\ Of' = Of /\ Want' = Want /\ R' = repo'[Of] /\ Of \in Repos
  BY <1>0, <1>1, <1>2, SameHere, StepOf DEF Stays, R
<1>4. CASE Ensure_git_repo
  <2>0. ~Fail /\ \A at : Go(at) => at = "submodule"
    BY <1>0, <1>1, FailControl, GoControl DEF Fails
  <2>1. repo' = repo
    BY <1>4 DEF Ensure_git_repo, disk
  <2>2. R.head = Want
    BY <1>4, <2>0 DEF Ensure_git_repo
  <2> QED BY <1>3, <2>1, <2>2 DEF R
<1>5. CASE Git_init
  BY <1>0, <1>1, <1>5, GoControl DEF Git_init
<1>6. CASE Git_checkout
  <2>1. repo' = [repo EXCEPT ![Of] = [R EXCEPT !.head = Want]]
    BY <1>0, <1>1, <1>6, FailControl DEF Git_checkout, SetRepo, Fails
  <2>2. R \in RepoType /\ repo'[Of] = [R EXCEPT !.head = Want]
    BY <1>3, <2>1 DEF Types, DiskOk, R
  <2> QED BY <1>3, <2>2 DEF RepoType
<1>7. CASE Git_submodule
  BY <1>0, <1>1, <1>7, JumpControl DEF Git_submodule, Advances, Moves
<1> QED BY <1>1, <1>3, <1>4, <1>5, <1>6, <1>7, StepOfOp

LEMMA FatfsOkStep ==
  ASSUME Types, FatfsOk, Continue \/ Cut
  PROVE  FatfsOk'
<1>0. ProcOk /\ UNCHANGED <<job, lock>> /\ Control /\ TreesOk
  BY ControlKeeps DEF Types, DiskOk
<1> SUFFICES ASSUME At("Extract_fatfs", "extract")', proc'.update
             PROVE  \A i \in Pieces : T'.files[i] \in {0, Want'}
  BY DEF FatfsOk
<1>1. Running' /\ Here'.op = "Extract_fatfs" /\ proc'.at = "extract"
  BY DEF At
<1>2. Stays
  BY <1>0, <1>1 DEF Control, Advances, Moves, Fails
<1>3. /\ Here' = Here /\ Of' = Of /\ Want' = Want /\ T' = tree'[Place(Of)] /\ Of = "fatfs"
      /\ Place(Of) \in Places /\ TreeOf(T) /\ proc.update /\ Here.op = "Extract_fatfs"
  BY <1>0, <1>1, <1>2, SameHere, StepOf, PlaceHere, TreeHere DEF Stays, SameRun, T
<1>4. CASE Extract_fatfs
  <2>1. tree' = tree /\ ~Jump(1) /\ \A at : Go(at) => at = "extract"
    BY <1>0, <1>1, <1>4, JumpControl, GoControl DEF Extract_fatfs, disk, Advances, Moves
  <2>2. ~T.there
    BY <1>3, <1>4, <2>1 DEF Extract_fatfs
  <2>3. T' = T /\ T = Nothing
    BY <1>3, <2>1, <2>2 DEF T, TreeOf
  <2> QED BY <2>3 DEF Nothing
<1>5. CASE Remove_fatfs
  <2>1. proc.at = "remove" /\ (proc' = proc \/ SetTree(Nothing)) 
    BY <1>5 DEF Remove_fatfs, Remove, At
  <2>2. tree' = [tree EXCEPT ![Place(Of)] = Nothing]
    BY <1>1, <2>1 DEF SetTree
  <2>3. T' = Nothing
    BY <1>0, <1>3, <2>2 DEF TreesOk
  <2> QED BY <2>3 DEF Nothing
<1>6. CASE Extractall
  <2>1. proc.at = "extract" /\ At("Extract_fatfs", "extract")
    BY <1>3, <1>6 DEF Extractall, At
  <2>2. PICK i \in Pieces : tree' = [tree EXCEPT ![Place(Of)] =
                                [T EXCEPT !.there = TRUE, !.files[i] = archive[Of][1]]]
    BY <1>6 DEF Extractall, Writes_file, SetTree
  <2>3. archive[Of][1] = Want
    BY <1>3, <2>1, FirstPiece DEF FromArchive, Source, ArchiveOf, At
  <2>4. T' = [T EXCEPT !.there = TRUE, !.files[i] = Want]
    BY <1>0, <1>3, <2>2, <2>3 DEF TreesOk
  <2> DEFINE f == [T.files EXCEPT ![i] = Want]
  <2>5. T'.files = f
    BY <1>3, <2>4 DEF TreeOf, TreeType
  <2>6. \A j \in Pieces : f[j] \in {Want, T.files[j]}
    BY <1>3 DEF TreeOf, TreeType
  <2> HIDE DEF f
  <2> QED BY <1>3, <2>1, <2>5, <2>6 DEF FatfsOk
<1> QED BY <1>3, <1>4, <1>5, <1>6, StepOfOp

LEMMA PdkSteps ==
  ASSUME ProcOk, job \in PdkJobs
  PROVE  IF proc.pc = 1 THEN Here = Step("Git", "pdk")
         ELSE Here.op # "Repair" /\ (Here.op = "Git" <=> Of = "pll")
BY StepHere DEF Placed, Of

\* A program leaves a checkout for the next step with the commit it wanted.
LEMMA GitAdvances ==
  ASSUME Types, HeadOk, Continue \/ Cut, Here.op = "Git", Advances(1)
  PROVE  /\ Of \in Repos /\ repo'[Of].head = Want
         /\ Of \in Recursive => repo'[Of].sub = Want
<1>0. ProcOk /\ job' = job /\ Of \in Repos /\ Running /\ repo \in [Repos -> RepoType]
  BY ControlKeeps, StepOf DEF Types, DiskOk
<1>1. proc'.status # "failed" /\ proc'.at = "start"
  BY <1>0 DEF Advances, Moves, Running
<1>2. ~Fail /\ \A at : Go(at) => at = "start"
  BY <1>0, <1>1, FailControl, GoControl DEF Fails
<1>3. Git_submodule
  BY <1>2, StepOfOp DEF Ensure_git_repo, Git_init, Git_checkout
<1>4. R = repo[Of] /\ R \in RepoType /\ R.head = Want
  BY <1>0, <1>3 DEF Git_submodule, HeadOk, R
<1>5. repo' = IF Of \in Recursive THEN [repo EXCEPT ![Of] = [R EXCEPT !.sub = R.head]] ELSE repo
  BY <1>3 DEF Git_submodule, SetRepo, disk
<1>6. CASE Of \in Recursive
  <2>1. repo'[Of] = [R EXCEPT !.sub = R.head]
    BY <1>0, <1>5, <1>6
  <2> QED BY <1>0, <1>4, <2>1 DEF RepoType
<1>7. CASE Of \notin Recursive
  BY <1>0, <1>4, <1>5, <1>7
<1> QED BY <1>6, <1>7

\* The views are generated from the checkout of the revision they are to name.
LEMMA PdkOkStep ==
  ASSUME Types, PdkOk, HeadOk, Continue \/ Cut
  PROVE  PdkOk'
<1>0. ProcOk /\ UNCHANGED <<job, lock>> /\ Control /\ Running
  BY ControlKeeps
<1> SUFFICES ASSUME Running', job \in PdkJobs, Of' # "pll"
             PROVE  IF proc'.pc = 1 THEN Want' = proc'.rev ELSE repo'["pdk"].head = proc'.rev
  BY <1>0 DEF PdkOk
<1>1. /\ "pdk" \in Repos
      /\ IF proc.pc = 1 THEN Here = Step("Git", "pdk")
         ELSE Here.op # "Repair" /\ (Here.op = "Git" <=> Of = "pll")
  BY <1>0, PdkSteps DEF Repos
<1>2. CASE Stays
  <2>1. Here' = Here /\ Of' = Of /\ Want' = Want /\ proc'.rev = proc.rev /\ proc'.pc = proc.pc
    BY <1>0, <1>2, SameHere DEF Stays, SameRun
  <2>2. CASE proc.pc = 1
    BY <1>0, <2>1, <2>2 DEF PdkOk
  <2>3. CASE proc.pc # 1
    <3>1. repo'["pdk"].head = repo["pdk"].head
      BY <1>1, <2>1, <2>3, RepoStep
    <3> QED BY <1>0, <2>1, <2>3, <3>1 DEF PdkOk
  <2> QED BY <2>2, <2>3
<1>3. CASE Advances(1)
  <2>1. /\ proc'.pc = proc.pc + 1 /\ Here' = Program[job][proc.pc + 1] /\ Of' = Here'.of
        /\ Follows(Here, Here') /\ Placed(job, proc.pc + 1, Here')
    BY <1>0, <1>3, NextHere
  <2>2. proc.pc \in Nat \ {0} /\ proc'.pc # 1
    BY <1>0, <2>1 DEF ProcOk, ProcType
  <2>3. Of # "pll" /\ Here'.op # "Git"
    BY <2>1, <2>2 DEF Follows, Placed, Of
  <2>4. proc'.rev = proc.rev
    BY <1>0, <1>3, <2>1, <2>3 DEF Advances, Moves, Running
  <2>5. CASE proc.pc = 1
    <3>1. Here.op = "Git" /\ Of = "pdk"
      BY <1>1, <2>5 DEF Step, Of
    <3> QED BY <1>0, <1>3, <2>2, <2>3, <2>4, <2>5, <3>1, GitAdvances DEF PdkOk
  <2>6. CASE proc.pc # 1
    <3>1. repo'["pdk"].head = repo["pdk"].head
      BY <1>1, <2>3, <2>6, RepoStep
    <3> QED BY <1>0, <2>2, <2>3, <2>4, <2>6, <3>1 DEF PdkOk
  <2> QED BY <2>5, <2>6
<1>4. CASE Fails
  BY <1>4 DEF Fails, Running
<1>5. CASE Here.op \in {"Marked", "Has_environment"}
  BY <1>0, <1>5, StepHere DEF Placed, PdkJobs
<1> QED BY <1>0, <1>2, <1>3, <1>4, <1>5 DEF Control

------------------------------------------------------------------------------
(* The generated views and the environment.                                *)

LEMMA PairHere ==
  ASSUME ProcOk, PdkOk, Running, Here.op \in PairOps
  PROVE  /\ job \in PdkJobs /\ Of \in Pairs /\ repo["pdk"].head = proc.rev
         /\ proc.rev \in Versions /\ proc.rev # 0
<1>1. job \in PdkJobs /\ Of \in Pairs
  BY StepHere, StepOf DEF Placed
<1>2. Of # "pll" /\ proc.pc # 1
  BY <1>1, PdkSteps DEF Pairs, PairOps, Step
<1> QED BY <1>1, <1>2 DEF PdkOk, ProcOk, ProcType, Versions

\* At the revision file the program writes it, or is stopped.
LEMMA WritingStep ==
  ASSUME Types, Continue \/ Cut, NEW p \in Pairs, Writing(p)
  PROVE  /\ pair'[p].out = pair[p].out /\ pair'[p].rev = proc.rev /\ Advances(1)
<1>1. ProcOk /\ job' = job /\ pair \in [Pairs -> PairType]
  BY ControlKeeps DEF Types, DiskOk
<1>2. Write_revision
  BY StepOfOp DEF Writing, Generate_liberty, Prepare_sim_model, At, PairOps
<1>3. pair' = [pair EXCEPT ![Of] = [pair[Of] EXCEPT !.rev = proc.rev]] /\ Advances(1)
  BY <1>1, <1>2, JumpControl DEF Write_revision, SetPair
<1>4. pair'[p] = [pair[p] EXCEPT !.rev = proc.rev] /\ pair[p] \in PairType
  BY <1>1, <1>3 DEF Writing
<1> QED BY <1>3, <1>4 DEF PairType

LEMMA PairOkStep ==
  ASSUME Types, Fresh, PdkOk, PairOk, ViewOk, Continue \/ Cut
  PROVE  PairOk'
<1>0. /\ ProcOk /\ UNCHANGED <<job, lock, reverted>> /\ (torn => torn') /\ Running
      /\ \A v : Other(v)' <=> Other(v)
  BY ControlKeeps
<1> SUFFICES ASSUME NEW p \in Pairs
             PROVE  /\ pair'[p].out = 0 => pair'[p].rev = 0
                    /\ pair'[p].rev # 0 => \/ pair'[p].out = pair'[p].rev
                                           \/ (torn' \/ Writing(p)') /\ Other(pair'[p].rev)
  BY <1>0 DEF PairOk, Other
<1>1. CASE Writing(p)
  <2>1. pair'[p].out = pair[p].out /\ pair'[p].rev = proc.rev /\ p = Of
    BY <1>1, WritingStep DEF Writing
  <2>2. pair[p].out = proc.rev
    BY <1>1, <2>1 DEF ViewOk
  <2> QED BY <2>1, <2>2
<1>2. CASE ~Writing(p) /\ pair'[p] = pair[p]
  BY <1>0, <1>2 DEF PairOk
<1>3. CASE pair'[p].out = 0 /\ pair'[p].rev = 0
  BY <1>3
<1>4. CASE /\ p = Of /\ Here.op \in PairOps
           /\ pair'[p].out = repo["pdk"].head /\ pair'[p].rev = pair[p].rev
           /\ Stays /\ proc'.at = "revision"
  <2>1. pair'[p].out = proc.rev /\ proc.rev # 0
    BY <1>0, <1>4, PairHere
  <2>2. Writing(p)'
    BY <1>0, <1>4, SameHere DEF Writing, Stays
  <2>3. CASE pair[p].rev = proc.rev
    BY <1>4, <2>1, <2>3
  <2>4. CASE pair[p].rev # proc.rev
    <3>1. ~reverted /\ proc.rev # lock => pair[p].rev # lock
      BY <1>0 DEF Fresh
    <3>2. Other(pair[p].rev)
      BY <2>4, <3>1 DEF Other
    <3> QED BY <1>4, <2>1, <2>2, <3>2
  <2> QED BY <2>3, <2>4
<1> QED BY <1>1, <1>2, <1>3, <1>4, PairStep

LEMMA ViewOkStep ==
  ASSUME Types, PdkOk, Continue \/ Cut
  PROVE  ViewOk'
<1>0. ProcOk /\ UNCHANGED <<job, lock>> /\ Control /\ Running
  BY ControlKeeps
<1> SUFFICES ASSUME Writing(Of)' PROVE pair'[Of'].out = proc'.rev
  BY DEF ViewOk
<1>1. Running' /\ Here'.op \in PairOps /\ proc'.at = "revision"
  BY DEF Writing
<1>2. Stays
  BY <1>0, <1>1 DEF Control, Advances, Moves, Fails
<1>3. Here' = Here /\ Of' = Of /\ proc'.rev = proc.rev /\ Of \in Pairs /\ repo["pdk"].head = proc.rev
  BY <1>0, <1>1, <1>2, SameHere, PairHere DEF Stays, SameRun
<1>4. ~Jump(1)
  BY <1>0, <1>1, JumpControl DEF Advances, Moves
<1>5. Generate_liberty \/ Prepare_sim_model
  BY <1>1, <1>3, <1>4, StepOfOp DEF PairOps, Write_revision
<1>6. pair' = [pair EXCEPT ![Of] = [pair[Of] EXCEPT !.out = repo["pdk"].head]]
  BY <1>4, <1>5 DEF Generate_liberty, Prepare_sim_model, SetPair
<1>7. pair'[Of] = [pair[Of] EXCEPT !.out = proc.rev] /\ pair[Of] \in PairType
  BY <1>3, <1>6 DEF Types, DiskOk
<1> QED BY <1>3, <1>7 DEF PairType

\* pip has installed everything when the program goes on.
LEMMA PipAdvances ==
  ASSUME Types, Continue \/ Cut, Here.op = "Pip", Advances(1)
  PROVE  env'.packages = Want /\ env'.stamp = env.stamp
<1>0. ProcOk /\ job' = job /\ Running /\ env \in EnvType
  BY ControlKeeps DEF Types, DiskOk
<1>1. proc'.status # "failed" /\ proc'.at = "start"
  BY <1>0 DEF Advances, Moves, Running
<1>2. ~Fail /\ \A at : Go(at) => at = "start"
  BY <1>0, <1>1, FailControl, GoControl DEF Fails
<1>3. Pip_ends
  BY <1>2, StepOfOp DEF Pip_install
<1>4. env' = [env EXCEPT !.packages = Want]
  BY <1>2, <1>3 DEF Pip_ends, SetEnv
<1> QED BY <1>0, <1>4 DEF EnvType

LEMMA StampOkStep ==
  ASSUME Types, StampOk, Continue \/ Cut
  PROVE  StampOk'
<1>0. ProcOk /\ UNCHANGED <<job, lock>> /\ Control /\ Running
  BY ControlKeeps
<1> SUFFICES ASSUME Running', Here'.op = "Write_stamp" PROVE env'.packages = Want'
  BY DEF StampOk
<1>1. CASE Stays
  <2>1. Here' = Here /\ Want' = Want
    BY <1>0, <1>1, SameHere DEF Stays
  <2>2. env'.packages = env.packages
    BY <2>1, EnvStep
  <2> QED BY <1>0, <2>1, <2>2 DEF StampOk
<1>2. CASE Advances(1)
  <2>1. /\ Here' = Program[job][proc.pc + 1] /\ Here.op = "Pip" /\ job = "environment"
        /\ Want' = IF Reads(proc.pc + 1) THEN lock ELSE Want
    BY <1>0, <1>2, NextHere DEF Follows, Placed
  <2>2. ~Reads(proc.pc + 1)
    BY <2>1 DEF Reads, Load_lock
  <2> QED BY <1>2, <2>1, <2>2, PipAdvances
<1>3. CASE Fails
  BY <1>3 DEF Fails, Running
<1>4. CASE Here.op = "Marked" /\ Advances(3)
  BY <1>0, <1>4, MarkedHere
<1>5. CASE Here.op = "Has_environment" /\ Advances(6)
  BY <1>0, <1>5, InstalledHere
<1> QED BY <1>0, <1>1, <1>2, <1>3, <1>4, <1>5 DEF Control

LEMMA PipNext ==
  ASSUME ProcOk, job' = job, Running, job = "environment", Here.op = "Pip", Advances(1)
  PROVE  Piping'
<1>1. proc.pc \in 1 .. 8 /\ Here = Program[job][proc.pc]
  BY StepHere, Steps_environment DEF Here
<1>2. proc.pc = 5
  BY <1>1, Steps_environment DEF Step
<1>3. proc'.status = "running" /\ proc'.pc = 6
  BY <1>2, Steps_environment DEF Advances, Moves, Running
<1>4. Here'.op = "Write_stamp"
  BY <1>3, Steps_environment DEF Here, Step
<1> QED BY <1>3, <1>4 DEF Piping, Running

LEMMA EnvOkStep ==
  ASSUME Types, Fresh, EnvOk, StampOk, Continue \/ Cut
  PROVE  EnvOk'
<1>0. /\ ProcOk /\ UNCHANGED <<job, lock, reverted>> /\ (torn => torn') /\ Control /\ Running
      /\ \A v : Other(v)' <=> Other(v)
  BY ControlKeeps
<1>1. job # "environment" => env'.stamp = 0
  <2>1. Here.op = "Write_stamp" => job = "environment"
    BY <1>0, StepHere DEF Placed
  <2> QED BY <2>1, EnvStep DEF EnvOk
<1> SUFFICES ASSUME env'.stamp # 0
             PROVE  \/ env'.packages = env'.stamp
                    \/ (torn' \/ Piping') /\ Other(env'.stamp)
  BY <1>0, <1>1 DEF EnvOk, Other
<1>2. job = "environment"
  BY <1>0, <1>1
<1>3. env.stamp # Want => Other(env.stamp)
  BY <1>0 DEF Fresh, Other
<1>4. CASE Here.op = "Write_stamp" /\ env'.stamp = Want /\ env'.packages = env.packages
  BY <1>0, <1>4 DEF StampOk
<1>5. CASE /\ Here.op = "Pip" /\ env'.stamp = env.stamp /\ env.packages # Want /\ Stays
  <2>1. Piping'
    BY <1>0, <1>5, SameHere DEF Piping, Stays
  <2>2. Other(env.stamp)
    BY <1>3, <1>5 DEF EnvOk
  <2> QED BY <1>5, <2>1, <2>2
<1>6. CASE /\ Here.op = "Pip" /\ env'.stamp = env.stamp /\ env'.packages = Want /\ Advances(1)
  BY <1>0, <1>2, <1>3, <1>6, PipNext
<1>7. CASE env'.packages = env.packages /\ env'.stamp = env.stamp
  <2>1. CASE env.packages = env.stamp \/ torn \/ Fails
    BY <1>0, <1>7, <2>1 DEF EnvOk, Fails
  <2>2. CASE Piping /\ Other(env.stamp) /\ Stays
    <3>1. Piping'
      BY <1>0, <2>2, SameHere DEF Piping, Stays
    <3> QED BY <1>7, <2>2, <3>1
  <2>3. CASE Here.op = "Pip" /\ Other(env.stamp) /\ Advances(1)
    BY <1>0, <1>2, <1>7, <2>3, PipNext
  <2>4. CASE Here.op = "Write_stamp" /\ Advances(1)
    <3>1. Write_stamp
      BY <2>4, StepOfOp
    <3>2. env' = [env EXCEPT !.stamp = Want] /\ env \in EnvType
      BY <3>1 DEF Write_stamp, SetEnv, Types, DiskOk
    <3>3. env'.stamp = Want /\ env'.packages = env.packages
      BY <3>2 DEF EnvType
    <3> QED BY <1>0, <2>4, <3>3 DEF StampOk
  <2> QED BY <1>0, <1>7, <2>1, <2>2, <2>3, <2>4 DEF EnvOk, Control, Piping
<1> QED BY <1>4, <1>5, <1>6, <1>7, EnvStep

------------------------------------------------------------------------------
(* What the steps of a program leave behind.                               *)

\* The product of a step, of the version the program works for.
Product(s) ==
  /\ s.op = "Unpack" => tree[Place(s.of)] = WholeTree(Want)
  /\ s.op = "Git" => repo[s.of].head = Want /\ (s.of \in Recursive => repo[s.of].sub = Want)
  /\ s.op \in PairOps => pair[s.of].out = Want /\ pair[s.of].rev = Want
  /\ s.op = "Extract_fatfs" /\ proc.update =>
       \A i \in Pieces : tree[<<"fatfs", 0>>].files[i] = Want
  /\ s.op = "Sync_tree" => tree[<<"core", 0>>].files = tree[<<"serv", 0>>].files
  /\ s.op = "Pip" => env.packages = Want
  /\ s.op = "Write_stamp" => env.stamp = Want
  /\ s.op = "Write_activation" => env.active = Want

\* The lock stood still since the program began.
Sure     == proc.steady /\ ~reverted
Done(k)  == \A i \in 1 .. k : Product(Program[job][i])
Progress ==
  /\ Running /\ Sure => Want = lock /\ proc.rev = lock /\ Done(proc.pc - 1)
  /\ proc.status = "ok" /\ Sure => Done(Len(Program[job]))

LEMMA FilesStep ==
  ASSUME Types, Continue \/ Cut, NEW t \in {"fatfs", "serv", "core"},
         t = "fatfs" => Here.op # "Extract_fatfs",
         t = "serv" => Here.op # "Extract_serv",
         t = "core" => Here.op # "Sync_tree"
  PROVE  tree'[<<t, 0>>].files = tree[<<t, 0>>].files
<1>0. ProcOk /\ tree \in [Places -> TreeType] /\ <<t, 0>> \in Places
  BY DEF Types, DiskOk, TreesOk, Places, Trees
<1>1. \A p, r : tree' = [tree EXCEPT ![p] = r] /\ p # <<t, 0>> => tree'[<<t, 0>>] = tree[<<t, 0>>]
  BY <1>0
<1>2. CASE tree' = tree
  BY <1>2
<1>3. CASE Remove_old \/ Replace_tree
  <2>1. Of \in MarkedTrees /\ t \notin MarkedTrees
    BY <1>3, RemoveOldStep, ReplaceTreeStep DEF MarkedTrees
  <2>2. Place(Of) # <<t, 0>> /\ <<"sram", 0>> # <<t, 0>>
    BY <2>1 DEF Place, MarkedTrees
  <2>3. \/ \E r : tree' = [tree EXCEPT ![Place(Of)] = r]
        \/ tree' = [tree EXCEPT ![<<"sram", 0>>] = Nothing]
    BY <1>3, RemoveOldStep, ReplaceTreeStep
  <2> QED BY <1>1, <2>2, <2>3
<1>4. CASE Patch
  <2>1. Here.op \in {"Patch_fatfs", "Patch_serv"}
    BY <1>4, OpOfStep
  <2>2. tree' = [tree EXCEPT ![Place(Of)] = [T EXCEPT !.mark = 1]] \/ tree' = tree
    BY <1>4 DEF Patch, SetTree, disk
  <2>3. Place(Of) \in Places /\ T \in TreeType
    BY <1>0, <2>1, PlaceHere, TreeHere DEF Types, DiskOk, TreeOf
  <2>4. [T EXCEPT !.mark = 1].files = T.files
    BY <2>3 DEF TreeType
  <2>5. CASE Place(Of) = <<t, 0>>
    BY <1>0, <2>2, <2>4, <2>5 DEF T
  <2>6. CASE Place(Of) # <<t, 0>>
    BY <1>1, <2>2, <2>6
  <2> QED BY <2>5, <2>6
<1>5. CASE ~Remove_old /\ ~Replace_tree /\ ~Patch /\ tree' # tree
  <2>1. /\ Here.op \in {"Extract_fatfs", "Patch_fatfs", "Extract_serv", "Patch_serv", "Sync_tree",
                        "Extract_vww_jpegs", "Decode_vww_bins"}
        /\ \E r : tree' = [tree EXCEPT ![Place(Of)] = r]
    BY <1>5, OtherTreesStep
  <2>2. Here.op \notin {"Patch_fatfs", "Patch_serv"}
    BY <1>5, OpOfStep, Writers
  <2>3. Of # t
    BY <1>0, <2>1, <2>2, StepOf
  <2> QED BY <1>1, <2>1, <2>3 DEF Place
<1> QED BY <1>2, <1>3, <1>4, <1>5

\* A step leaves the product of another alone.
LEMMA ProductKept ==
  ASSUME Types, Continue \/ Cut, Want' = Want, proc'.update = proc.update,
         NEW s, Fits(s), Apart(s, Here), Product(s)
  PROVE  Product(s)'
<1>0. ProcOk /\ tree \in [Places -> TreeType]
  BY DEF Types, DiskOk, TreesOk
<1>1. ASSUME s.op = "Unpack" PROVE tree'[Place(s.of)] = WholeTree(Want)
  <2>1. /\ s.of \in MarkedTrees /\ Place(s.of) \in MarkedPlaces /\ Place(s.of) \in Places
        /\ tree[Place(s.of)] = WholeTree(Want)
    BY <1>0, <1>1, MarkedPlace DEF Fits, Product, MarkedPlaces
  <2>2. CASE Remove_old \/ Replace_tree
    <3>1. Here.op = "Unpack" /\ s.of # Of /\ (Of = "lib" => s.of # "sram")
      BY <1>1, <2>2, RemoveOldStep, ReplaceTreeStep DEF Apart, Of
    <3>2. Place(Of) # Place(s.of) /\ (Of = "lib" => Place(s.of) # <<"sram", 0>>)
      BY <3>1 DEF Place
    <3>3. \/ \E r : tree' = [tree EXCEPT ![Place(Of)] = r]
          \/ Of = "lib" /\ tree' = [tree EXCEPT ![<<"sram", 0>>] = Nothing]
      BY <2>2, RemoveOldStep, ReplaceTreeStep
    <3> QED BY <1>0, <2>1, <3>2, <3>3
  <2>3. CASE ~Remove_old /\ ~Replace_tree
    BY <1>0, <2>1, <2>3, OtherTreesStep, MarkedPlace
  <2> QED BY <2>2, <2>3
<1>2. ASSUME s.op = "Git" PROVE repo'[s.of].head = repo[s.of].head /\ repo'[s.of].sub = repo[s.of].sub
  <2>1. s.of \in Repos /\ (Here.op \in {"Git", "Repair"} => s.of # Of)
    BY <1>2 DEF Fits, Apart, Of
  <2> QED BY <2>1, RepoStep
<1>3. ASSUME s.op \in PairOps PROVE pair'[s.of] = pair[s.of]
  <2>1. /\ s.of \in Pairs /\ (Here.op \in PairOps => s.of # Of)
        /\ ~(Here.op = "Unpack" /\ Of = "lib")
    BY <1>3 DEF Fits, Apart, Of
  <2> QED BY <2>1, PairStep DEF Writing
<1>4. ASSUME s.op = "Extract_fatfs" PROVE tree'[<<"fatfs", 0>>].files = tree[<<"fatfs", 0>>].files
  BY <1>4, FilesStep DEF Apart
<1>5. ASSUME s.op = "Sync_tree"
      PROVE  \A t \in {"core", "serv"} : tree'[<<t, 0>>].files = tree[<<t, 0>>].files
  BY <1>5, FilesStep DEF Apart
<1>6. /\ s.op = "Pip" => env'.packages = env.packages
      /\ s.op = "Write_stamp" => env'.stamp = env.stamp
  BY EnvStep DEF Apart
<1>7. ASSUME s.op = "Write_activation" PROVE env'.active = env.active
  <2>1. ~Write_activation /\ env \in EnvType
    BY <1>7, OpOfStep DEF Apart, Types, DiskOk
  <2>2. env' = env \/ \E x : \/ env' = [env EXCEPT !.python = x]
                             \/ env' = [env EXCEPT !.pip = x]
                             \/ env' = [env EXCEPT !.packages = x]
                             \/ env' = [env EXCEPT !.stamp = x]
    BY <2>1, Writers DEF Create_virtualenv, Ensure_pip, Pip_install, Pip_ends, Write_stamp, SetEnv, disk
  <2> QED BY <2>1, <2>2 DEF EnvType
<1>8. Place(s.of)' = Place(s.of) /\ WholeTree(Want)' = WholeTree(Want)
  BY DEF Place, WholeTree
<1> QED BY <1>1, <1>2, <1>3, <1>4, <1>5, <1>6, <1>7, <1>8 DEF Product

------------------------------------------------------------------------------
(* A step that goes on has made its product.                               *)

\* A step that goes on to the next one has come to its end.
LEMMA AdvanceIs ==
  ASSUME ProcOk, job' = job, Running, Advances(1)
  PROVE  ~Fail /\ ~Stays /\ \A at : Go(at) => at = "start"
<1>1. proc'.at = "start" /\ proc'.status # "failed"
  BY DEF Advances, Moves, Running
<1>2. ~Stays
  BY DEF Advances, Moves, Running, Stays, SameRun, ProcOk, ProcType
<1> QED BY <1>1, <1>2, FailControl, GoControl DEF Fails

\* A directory with the marker of the version the lock pins is whole.
LEMMA MarkedIsWhole ==
  ASSUME TreeOk, NEW p \in MarkedPlaces, lock # 0, tree[p].mark = lock, ~reverted
  PROVE  tree[p] = WholeTree(lock)
BY DEF TreeOk, Other

LEMMA UnpackMakes ==
  ASSUME Types, TreeOk, Continue \/ Cut, Advances(1), Want = lock, proc.rev = lock, ~reverted,
         Here.op = "Unpack"
  PROVE  tree'[Place(Of)] = WholeTree(Want)
<1>0. /\ ProcOk /\ job' = job /\ Running /\ Want \in Versions /\ Want # 0
      /\ Of \in MarkedTrees /\ Place(Of) \in MarkedPlaces /\ Place(Of) \in Places
      /\ tree \in [Places -> TreeType]
  <2>1. ProcOk /\ job' = job /\ Running /\ tree \in [Places -> TreeType]
    BY ControlKeeps DEF Types, DiskOk, TreesOk
  <2>2. Of \in MarkedTrees
    BY <2>1, StepOf
  <2> QED BY <2>1, <2>2, MarkedPlace DEF ProcOk, ProcType, Want, Versions, MarkedPlaces
<1>1. ~Fail /\ ~Stays /\ ~Go("remove")
  BY <1>0, AdvanceIs
<1>2. CASE Unpack
  <2>1. T.mark = Want
    BY <1>0, <1>1, <1>2 DEF Unpack, Install, Install_archive, Prepare_sky130_sram,
       Prepare_ics55_liberty, Marker
  <2>2. tree' = tree
    BY <1>2 DEF Unpack, disk
  <2> QED BY <1>0, <2>1, <2>2, MarkedIsWhole DEF T
<1>3. CASE Remove_old
  <2>1. proc' = proc /\ torn' = torn => Stays
    BY DEF Stays, SameRun
  <2> QED BY <1>1, <1>3, <2>1, RemoveOldStep
<1>4. CASE Replace_tree
  <2>1. tree' = [tree EXCEPT ![Place(Of)] = [WholeTree(Want) EXCEPT !.mark = Marker]]
    BY <1>4, ReplaceTreeStep
  <2> QED BY <1>0, <2>1 DEF Marker, WholeTree
<1> QED BY <1>2, <1>3, <1>4, StepOfOp

LEMMA PairMakes ==
  ASSUME Types, PairOk, PdkOk, ViewOk, Continue \/ Cut, Advances(1), Want = lock, proc.rev = lock,
         ~reverted, Here.op \in PairOps
  PROVE  pair'[Of].out = Want /\ pair'[Of].rev = Want
<1>0. ProcOk /\ job' = job /\ Running /\ Of \in Pairs /\ lock # 0
  BY ControlKeeps, PairHere
<1>1. ~Stays /\ ~Go("revision")
  BY <1>0, AdvanceIs
<1>2. CASE Generate_liberty
  <2>1. pair' = pair /\ pair[Of].out # 0 /\ pair[Of].rev = proc.rev /\ proc.at = "start"
    BY <1>1, <1>2 DEF Generate_liberty, disk, At
  <2> QED BY <1>0, <2>1 DEF PairOk, Other
<1>3. CASE Prepare_sim_model
  BY <1>1, <1>3 DEF Prepare_sim_model
<1>4. CASE Write_revision
  <2>1. Writing(Of)
    BY <1>0, <1>4 DEF Write_revision, Writing
  <2> QED BY <1>0, <2>1, WritingStep DEF ViewOk
<1> QED BY <1>2, <1>3, <1>4, StepOfOp DEF PairOps

LEMMA FatfsMakes ==
  ASSUME Types, FatfsOk, Continue \/ Cut, Advances(1), Here.op = "Extract_fatfs", proc.update
  PROVE  \A i \in Pieces : tree'[<<"fatfs", 0>>].files[i] = Want
<1>0. /\ ProcOk /\ job' = job /\ Running /\ Of = "fatfs" /\ Place(Of) = <<"fatfs", 0>>
      /\ Place(Of) \in Places /\ tree \in [Places -> TreeType] /\ T \in TreeType
  <2>1. ProcOk /\ job' = job /\ Running /\ tree \in [Places -> TreeType]
    BY ControlKeeps DEF Types, DiskOk, TreesOk
  <2>2. Of = "fatfs" /\ Place(Of) \in Places
    BY <2>1, StepOf, PlaceHere
  <2> QED BY <2>1, <2>2 DEF Place, T
<1>1. ~Stays /\ ~Go("remove") /\ ~Go("extract")
  BY <1>0, AdvanceIs
<1>2. proc' = proc /\ torn' = torn => Stays
  BY DEF Stays, SameRun
<1>3. CASE Extract_fatfs
  BY <1>1, <1>3 DEF Extract_fatfs
<1>4. CASE Remove_fatfs
  BY <1>1, <1>2, <1>4 DEF Remove_fatfs, Remove, Go
<1>5. CASE Extractall
  <2>1. proc.at = "extract" /\ At("Extract_fatfs", "extract")
    BY <1>5 DEF Extractall, At
  <2>2. archive[Of][1] = Want
    BY <1>0, FirstPiece DEF FromArchive, Source, ArchiveOf
  <2>3. PICK i \in Pieces :
          /\ tree' = [tree EXCEPT ![Place(Of)] = [T EXCEPT !.there = TRUE, !.files[i] = Want]]
          /\ \A j \in Pieces \ {i} : T.files[j] # 0
    BY <1>1, <1>2, <1>5, <2>2 DEF Extractall, Writes_file, SetTree
  <2> DEFINE f == [T.files EXCEPT ![i] = Want]
  <2>4. tree'[<<"fatfs", 0>>].files = f
    BY <1>0, <2>3 DEF TreeType
  <2>5. \A j \in Pieces : f[j] = Want
    BY <1>0, <2>1, <2>3 DEF TreeType, FatfsOk
  <2> HIDE DEF f
  <2> QED BY <2>4, <2>5
<1> QED BY <1>3, <1>4, <1>5, StepOfOp

LEMMA CopyMakes ==
  ASSUME Types, Continue \/ Cut, Advances(1), Here.op = "Sync_tree"
  PROVE  tree'[<<"core", 0>>].files = tree'[<<"serv", 0>>].files
<1>0. /\ ProcOk /\ job' = job /\ Running /\ Of = "core" /\ Place(Of) = <<"core", 0>>
      /\ Place(Of) \in Places /\ tree \in [Places -> TreeType] /\ T \in TreeType
      /\ <<"serv", 0>> \in Places
  <2>1. ProcOk /\ job' = job /\ Running /\ tree \in [Places -> TreeType]
    BY ControlKeeps DEF Types, DiskOk, TreesOk
  <2>2. Of = "core" /\ Place(Of) \in Places
    BY <2>1, StepOf, PlaceHere
  <2> QED BY <2>1, <2>2 DEF Place, T, Places, Trees
<1>1. ~Stays /\ ~Go("remove") /\ ~Go("copy")
  BY <1>0, AdvanceIs
<1>2. proc' = proc /\ torn' = torn => Stays
  BY DEF Stays, SameRun
<1>3. CASE Sync_tree
  <2>1. T.files = tree[<<"serv", 0>>].files /\ tree' = tree
    BY <1>1, <1>3 DEF Sync_tree, disk
  <2> QED BY <1>0, <2>1 DEF T
<1>4. CASE Remove_core
  BY <1>1, <1>2, <1>4 DEF Remove_core, Remove, Go
<1>5. CASE Copytree
  <2> DEFINE g == tree[<<"serv", 0>>].files
             missing == {i \in Pieces : T.files[i] # g[i]}
  <2>1. /\ \E i \in missing :
             tree' = [tree EXCEPT ![Place(Of)] = [T EXCEPT !.there = TRUE, !.files[i] = g[i]]]
        /\ Cardinality(missing) = 1
    BY <1>1, <1>2, <1>5 DEF Copytree, SetTree
  <2>2. IsFiniteSet(missing)
    <3>1. IsFiniteSet({1} \cup {2})
      BY FS_Singleton, FS_AddElement
    <3>2. missing \in SUBSET ({1} \cup {2})
      BY DEF Pieces
    <3> HIDE DEF missing
    <3> QED BY <3>1, <3>2, FS_Subset
  <2>3. \E x : missing = {x}
    <3> HIDE DEF missing
    <3> QED BY <2>1, <2>2, FS_Singleton
  <2>4. PICK i \in missing :
          tree' = [tree EXCEPT ![Place(Of)] = [T EXCEPT !.there = TRUE, !.files[i] = g[i]]]
    BY <2>1
  <2>5. \A j \in Pieces : j # i => T.files[j] = g[j]
    BY <2>3, <2>4
  <2> DEFINE f == [T.files EXCEPT ![i] = g[i]]
  <2>6. tree'[<<"core", 0>>].files = f /\ tree'[<<"serv", 0>>].files = g
    <3>1. i \in Pieces /\ <<"serv", 0>> # <<"core", 0>>
      OBVIOUS
    <3>2. tree'[<<"core", 0>>] = [T EXCEPT !.there = TRUE, !.files[i] = g[i]]
      BY <1>0, <2>4
    <3>3. tree'[<<"serv", 0>>] = tree[<<"serv", 0>>]
      BY <1>0, <2>4, <3>1
    <3>4. [T EXCEPT !.there = TRUE, !.files[i] = g[i]].files = f
      BY <1>0 DEF TreeType
    <3> QED BY <3>2, <3>3, <3>4
  <2>7. f \in [Pieces -> 0 .. Wrong] /\ g \in [Pieces -> 0 .. Wrong]
    BY <1>0, <2>4 DEF TreeType
  <2>8. \A j \in Pieces : f[j] = g[j]
    BY <1>0, <2>5 DEF TreeType
  <2>9. f = g
    <3> HIDE DEF f, g
    <3> QED BY <2>7, <2>8
  <2> QED BY <2>6, <2>9
<1> QED BY <1>3, <1>4, <1>5, StepOfOp

\* A step that goes on leaves its product.
LEMMA ProductMade ==
  ASSUME Types, TreeOk, PairOk, PdkOk, ViewOk, HeadOk, FatfsOk, Continue \/ Cut, Advances(1),
         Want = lock, proc.rev = lock, ~reverted, Want' = Want, proc'.update = proc.update,
         NEW s, s = Here
  PROVE  Product(s)'
<1>0. ProcOk /\ env \in EnvType /\ s.of = Of /\ s.op = Here.op
  BY DEF Types, DiskOk, Of
<1>1. s.op = "Unpack" => tree'[Place(s.of)] = WholeTree(Want)
  BY <1>0, UnpackMakes
<1>2. s.op = "Git" => repo'[s.of].head = Want /\ (s.of \in Recursive => repo'[s.of].sub = Want)
  BY <1>0, GitAdvances
<1>3. s.op \in PairOps => pair'[s.of].out = Want /\ pair'[s.of].rev = Want
  BY <1>0, PairMakes
<1>4. s.op = "Extract_fatfs" /\ proc.update =>
        \A i \in Pieces : tree'[<<"fatfs", 0>>].files[i] = Want
  BY <1>0, FatfsMakes
<1>5. s.op = "Sync_tree" => tree'[<<"core", 0>>].files = tree'[<<"serv", 0>>].files
  BY <1>0, CopyMakes
<1>6. s.op = "Pip" => env'.packages = Want
  BY <1>0, PipAdvances
<1>7. s.op = "Write_stamp" => env'.stamp = Want
  <2>1. Write_stamp => env' = [env EXCEPT !.stamp = Want]
    BY DEF Write_stamp, SetEnv
  <2> QED BY <1>0, <2>1, StepOfOp DEF EnvType
<1>8. s.op = "Write_activation" => env'.active = Want
  <2>1. Write_activation => env' = [env EXCEPT !.active = Want]
    BY DEF Write_activation, SetEnv
  <2> QED BY <1>0, <2>1, StepOfOp DEF EnvType
<1>9. Place(s.of)' = Place(s.of) /\ WholeTree(Want)' = WholeTree(Want)
  BY DEF Place, WholeTree
<1> QED BY <1>1, <1>2, <1>3, <1>4, <1>5, <1>6, <1>7, <1>8, <1>9 DEF Product

------------------------------------------------------------------------------
(* A program keeps what it has made, and comes on.                         *)

LEMMA ProgressAt ==
  ASSUME job' = job, NEW k \in Nat,
         \A i \in 1 .. k : \A s : s = Program[job][i] => Product(s)',
         Want' = lock', proc'.rev = lock',
         \/ Running' /\ proc'.pc - 1 = k
         \/ proc'.status = "ok" /\ Len(Program[job]) = k
  PROVE  Progress'
BY DEF Progress, Done, Running

\* The products of the steps a program has behind it stay.
LEMMA ProductsKept ==
  ASSUME Types, Continue \/ Cut, Want' = Want, proc'.update = proc.update, Done(proc.pc - 1)
  PROVE  \A i \in 1 .. (proc.pc - 1) : \A s : s = Program[job][i] => Product(s)'
<1> SUFFICES ASSUME NEW i \in 1 .. (proc.pc - 1), NEW s, s = Program[job][i] PROVE Product(s)'
  OBVIOUS
<1>1. ProcOk /\ Shaped(job, Program[job]) /\ proc.pc \in 1 .. Len(Program[job])
  BY ProgramShape, StepHere DEF Types, ProcOk
<1>2. i \in 1 .. Len(Program[job]) /\ i < proc.pc /\ Len(Program[job]) \in Nat
  BY <1>1, ProgramLen DEF ProcOk
<1>3. Fits(s) /\ Apart(s, Here)
  BY <1>1, <1>2 DEF Shaped, Here
<1>4. Product(s)
  BY DEF Done
<1> QED BY <1>3, <1>4, ProductKept

\* setup_apu_reference passes over what is marked, which is whole then.
LEMMA MarkedSkips ==
  ASSUME Types, TreeOk, Continue \/ Cut, Here.op = "Marked", Advances(3), Want = lock, ~reverted,
         Want' = Want
  PROVE  /\ proc'.pc = proc.pc + 3 /\ Running'
         /\ \A i \in {proc.pc, proc.pc + 1, proc.pc + 2} : \A s : s = Program[job][i] => Product(s)'
<1>0. /\ ProcOk /\ job' = job /\ Running /\ job = "apu_p5" /\ proc.pc \in {1, 4}
      /\ Of \in MarkedTrees /\ Place(Of) \in MarkedPlaces /\ lock # 0
  <2>1. ProcOk /\ job' = job /\ Running /\ job = "apu_p5" /\ proc.pc \in {1, 4}
    BY ControlKeeps, StepHere DEF Placed
  <2>2. Of \in MarkedTrees
    BY <2>1, StepOf DEF MarkedTrees
  <2> QED BY <2>1, <2>2, MarkedPlace DEF ProcOk, Versions
<1>1. /\ Len(Program[job]) = 7 /\ Program[job][proc.pc] = Step("Marked", Of)
      /\ Program[job][proc.pc + 1] = Step("Download", Of)
      /\ Program[job][proc.pc + 2] = Step("Unpack", Of)
  BY <1>0, Steps_apu_p5 DEF Step, Of, Here
<1>2. proc'.pc = proc.pc + 3 /\ Running'
  BY <1>0, <1>1 DEF Advances, Moves, Running
<1>3. ~Jump(1)
  <2>1. Advances(1) => proc'.pc = proc.pc + 1
    BY <1>0, <1>1 DEF Advances, Moves
  <2> QED BY <1>0, <1>2, <2>1, JumpControl
<1>4. T.mark = Want /\ tree' = tree
  BY <1>3, StepOfOp DEF Marked, disk
<1>5. tree'[Place(Of)] = WholeTree(Want)
  BY <1>0, <1>4, MarkedIsWhole DEF T
<1>6. ASSUME NEW s, s \in {Step("Marked", Of), Step("Download", Of)} PROVE Product(s)'
  BY <1>6 DEF Product, Step, PairOps
<1>7. ASSUME NEW s, s = Step("Unpack", Of) PROVE Product(s)'
  <2>1. s.of = Of /\ s.op = "Unpack" /\ Place(s.of)' = Place(s.of)
    BY <1>7 DEF Step, Place
  <2>2. WholeTree(Want)' = WholeTree(Want)
    BY DEF WholeTree
  <2> QED BY <1>5, <2>1, <2>2 DEF Product, PairOps
<1> QED BY <1>1, <1>2, <1>6, <1>7

\* development_environment.py goes straight to the activation when all is installed.
LEMMA InstalledSkips ==
  ASSUME Types, EnvOk, GccOk, Continue \/ Cut, Here.op = "Has_environment", Advances(6),
         Want = lock, ~reverted, Want' = Want
  PROVE  /\ proc'.pc = 7 /\ Running'
         /\ \A i \in 1 .. 6 : \A s : s = Program[job][i] => Product(s)'
<1>0. /\ ProcOk /\ job' = job /\ Running /\ job = "environment" /\ proc.pc = 1
      /\ Want \in Versions /\ Want # 0
  BY ControlKeeps, StepHere DEF Placed, ProcOk, ProcType, Want, Versions
<1>1. proc'.pc = 7 /\ Running'
  BY <1>0, Steps_environment DEF Advances, Moves, Running
<1>2. ~Jump(1)
  <2>1. Advances(1) => proc'.pc = 2
    BY <1>0, Steps_environment DEF Advances, Moves
  <2> QED BY <1>0, <1>1, <2>1, JumpControl
<1>3. Installed /\ UNCHANGED <<tree, env>>
  BY <1>2, StepOfOp DEF Has_environment, disk
<1>4. env'.stamp = Want /\ env'.packages = Want
  BY <1>0, <1>3 DEF Installed, EnvOk, Other, Piping
<1>5. tree'[<<"gcc", Want>>] = WholeTree(Want)
  BY <1>0, <1>3 DEF Installed, GccOk, Nothing
<1>6. ASSUME NEW s, s = Step("Unpack", "gcc") PROVE Product(s)'
  <2>1. s.op = "Unpack" /\ Place(s.of)' = <<"gcc", Want>>
    BY <1>6 DEF Step, Place
  <2>2. WholeTree(Want)' = WholeTree(Want)
    BY DEF WholeTree
  <2> QED BY <1>5, <2>1, <2>2 DEF Product, PairOps
<1>7. ASSUME NEW s, s \in {Step("Has_environment", "gcc"), Step("Download", "gcc"),
                           Step("Create_virtualenv", "venv"), Step("Pip", "venv"),
                           Step("Write_stamp", "venv")}
      PROVE  Product(s)'
  BY <1>4, <1>7 DEF Product, Step, PairOps
<1> QED BY <1>0, <1>1, <1>6, <1>7, Steps_environment

LEMMA ProgressStep ==
  ASSUME Types, TreeOk, GccOk, PairOk, EnvOk, PdkOk, ViewOk, HeadOk, FatfsOk, Progress,
         Continue \/ Cut
  PROVE  Progress'
<1>0. /\ ProcOk /\ UNCHANGED <<job, lock, reverted>> /\ Control /\ Running
      /\ Want' \in {Want, lock} /\ proc'.rev \in {proc.rev, lock} /\ proc'.steady = proc.steady
      /\ proc.pc \in 1 .. Len(Program[job]) /\ Len(Program[job]) \in Nat
  <2>1. ProcOk
    BY ControlKeeps
  <2> QED BY <2>1, ControlKeeps, StepHere, ProgramLen DEF ProcOk
<1>1. CASE Fails
  BY <1>1 DEF Fails, Progress, Running
<1>2. CASE ~Sure
  BY <1>0, <1>2 DEF Sure, Progress
<1> SUFFICES ASSUME Sure, ~Fails PROVE Progress'
  BY <1>1, <1>2
<1>3. /\ Want = lock /\ proc.rev = lock /\ Done(proc.pc - 1) /\ Want' = Want /\ Want' = lock'
      /\ proc'.rev = lock' /\ ~reverted
  BY <1>0 DEF Progress, Sure
<1>4. proc'.update = proc.update
  BY <1>0 DEF Control, Stays, SameRun, Advances, Moves
<1>5. \A i \in 1 .. (proc.pc - 1) : \A s : s = Program[job][i] => Product(s)'
  BY <1>3, <1>4, ProductsKept
<1>6. CASE Stays
  <2>1. Running' /\ proc'.pc = proc.pc
    BY <1>0, <1>6 DEF Stays, SameRun, Running
  <2> DEFINE k == proc.pc - 1
  <2>2. k \in Nat /\ proc'.pc - 1 = k
    BY <1>0, <2>1
  <2> HIDE DEF k
  <2> QED BY <1>0, <1>3, <1>5, <2>1, <2>2, ProgressAt DEF k
<1>7. CASE Advances(1)
  <2>1. \A s : s = Program[job][proc.pc] => Product(s)'
    BY <1>0, <1>3, <1>4, <1>7, ProductMade DEF Here
  <2> DEFINE k == proc.pc
  <2>2. k \in Nat /\ \A i \in 1 .. k : i = proc.pc \/ i \in 1 .. (proc.pc - 1)
    BY <1>0
  <2>3. \A i \in 1 .. k : \A s : s = Program[job][i] => Product(s)'
    BY <1>5, <2>1, <2>2
  <2>4. \/ Running' /\ proc'.pc - 1 = k
        \/ proc'.status = "ok" /\ Len(Program[job]) = k
    BY <1>0, <1>7 DEF Advances, Moves, Running
  <2> HIDE DEF k
  <2> QED BY <1>0, <1>3, <2>2, <2>3, <2>4, ProgressAt
<1>8. CASE Here.op = "Marked" /\ Advances(3)
  <2> DEFINE k == proc.pc + 2
  <2>1. /\ proc'.pc = proc.pc + 3 /\ Running'
        /\ \A i \in {proc.pc, proc.pc + 1, proc.pc + 2} : \A s : s = Program[job][i] => Product(s)'
    BY <1>3, <1>8, MarkedSkips
  <2>2. /\ k \in Nat /\ proc'.pc - 1 = k
        /\ \A i \in 1 .. k : \/ i \in {proc.pc, proc.pc + 1, proc.pc + 2}
                             \/ i \in 1 .. (proc.pc - 1)
    BY <1>0, <2>1
  <2>3. \A i \in 1 .. k : \A s : s = Program[job][i] => Product(s)'
    BY <1>5, <2>1, <2>2
  <2> HIDE DEF k
  <2> QED BY <1>0, <1>3, <2>1, <2>2, <2>3, ProgressAt
<1>9. CASE Here.op = "Has_environment" /\ Advances(6)
  <2>1. /\ proc'.pc = 7 /\ Running'
        /\ \A i \in 1 .. 6 : \A s : s = Program[job][i] => Product(s)'
    BY <1>3, <1>9, InstalledSkips
  <2> QED BY <1>0, <1>3, <2>1, ProgressAt
<1> QED BY <1>0, <1>6, <1>7, <1>8, <1>9 DEF Control

------------------------------------------------------------------------------
(* The inductive invariant.                                                *)

Marks == Known /\ Fresh /\ TreeOk /\ RemoveOk /\ GccOk /\ PairOk /\ EnvOk
Work  == HeadOk /\ FatfsOk /\ PdkOk /\ ViewOk /\ StampOk
Held  == Types /\ Marks /\ Work /\ Progress

LEMMA HeldContinue == ASSUME Held, Continue \/ Cut PROVE Marks' /\ Work' /\ Progress'
<1>0. Types /\ Marks /\ Work /\ Progress
  BY DEF Held
<1>1. Marks'
  BY <1>0, KnownStep, FreshStep, TreeOkStep, RemoveOkStep, GccOkStep, PairOkStep, EnvOkStep DEF Marks, Work
<1>2. Work'
  BY <1>0, HeadOkStep, FatfsOkStep, PdkOkStep, ViewOkStep, StampOkStep DEF Marks, Work
<1>3. Progress'
  BY <1>0, ProgressStep DEF Marks, Work
<1> QED BY <1>1, <1>2, <1>3

\* A run that is killed leaves the disk as it is, and says so.
LEMMA HeldKill == ASSUME Held, Kill PROVE Marks' /\ Work' /\ Progress'
<1>0. ProcOk /\ Known /\ TreeOk /\ GccOk /\ PairOk /\ EnvOk
  BY DEF Held, Types, Marks
<1>1. Fails /\ UNCHANGED <<job, lock, past, disk, reverted>>
  BY <1>0, FailControl DEF Kill
<1>2. ~Running' /\ UNCHANGED <<tree, repo, pair, env>> /\ torn'
  BY <1>1 DEF Fails, Running, disk
<1>3. Known'
  BY <1>0, <1>1, <1>2 DEF Known, Fails
<1>4. \A v : Other(v)' <=> Other(v)
  BY <1>1 DEF Other
<1>5. TreeOk' /\ GccOk'
  BY <1>0, <1>2, <1>4 DEF TreeOk, GccOk
<1>6. PairOk' /\ EnvOk'
  BY <1>0, <1>1, <1>2, <1>4 DEF PairOk, EnvOk
<1>7. Fresh' /\ RemoveOk' /\ HeadOk' /\ FatfsOk' /\ PdkOk' /\ ViewOk' /\ StampOk'
  BY <1>2 DEF Fresh, RemoveOk, HeadOk, FatfsOk, PdkOk, ViewOk, Writing, StampOk, At
<1>8. Progress'
  BY <1>1, <1>2 DEF Progress, Fails
<1> QED BY <1>3, <1>5, <1>6, <1>7, <1>8 DEF Marks, Work

\* A run begins with the version the lock pins, and with nothing behind it.
LEMMA HeldStart ==
  ASSUME Held, NEW update \in BOOLEAN, Start(update)
  PROVE  Marks' /\ Work' /\ Progress'
<1>0. ProcOk /\ Known /\ TreeOk /\ GccOk /\ PairOk /\ EnvOk /\ ~Running
  BY DEF Held, Types, Marks, Start
<1>1. /\ UNCHANGED <<job, lock, past, disk, torn, reverted>>
      /\ proc'.status = "running" /\ proc'.pc = 1 /\ proc'.at = "start" /\ Want' = lock'
      /\ proc'.want = lock /\ proc'.rev = lock
  BY DEF Start, Want
<1>2. UNCHANGED <<tree, repo, pair, env>>
  BY <1>1 DEF disk
<1>3. Known' /\ Fresh'
  BY <1>0, <1>1, <1>2 DEF Known, Fresh
<1>4. \A v : Other(v)' <=> Other(v)
  BY <1>1 DEF Other
<1>5. ~(\E p : Removing(p)) /\ ~(\E p : Writing(p)) /\ ~Piping
  BY <1>0 DEF Removing, Writing, Piping, At
<1>6. TreeOk' /\ GccOk'
  BY <1>0, <1>1, <1>2, <1>4, <1>5 DEF TreeOk, GccOk
<1>7. PairOk' /\ EnvOk'
  BY <1>0, <1>1, <1>2, <1>4, <1>5 DEF PairOk, EnvOk
<1>8. RemoveOk' /\ HeadOk' /\ FatfsOk' /\ PdkOk' /\ ViewOk'
  BY <1>1 DEF RemoveOk, HeadOk, FatfsOk, PdkOk, ViewOk, Writing, At
<1>9. StampOk'
  <2>1. Placed(job, 1, Program[job][1])
    BY <1>0, ProgramLen, ProgramShape DEF ProcOk, Shaped
  <2>2. Here' = Program[job][1]
    BY <1>1 DEF Here
  <2> QED BY <2>1, <2>2 DEF StampOk, Placed
<1>10. Progress'
  BY <1>1 DEF Progress, Done
<1> QED BY <1>3, <1>6, <1>7, <1>8, <1>9, <1>10 DEF Marks, Work

\* What a step of somebody else does not change.
LEMMA SameView ==
  ASSUME UNCHANGED <<job, disk>>, proc'.status = proc.status, proc'.pc = proc.pc,
         proc'.at = proc.at, proc'.want = proc.want, proc'.rev = proc.rev,
         proc'.update = proc.update
  PROVE  /\ UNCHANGED <<tree, repo, pair, env>> /\ (Running' <=> Running)
         /\ Here' = Here /\ Of' = Of /\ Want' = Want /\ T' = T /\ R' = R
         /\ (\A op, at : At(op, at)' <=> At(op, at))
         /\ (\A p : (Removing(p)' <=> Removing(p)) /\ (Writing(p)' <=> Writing(p)))
         /\ (Piping' <=> Piping)
<1>1. UNCHANGED <<tree, repo, pair, env>> /\ (Running' <=> Running) /\ Here' = Here /\ Want' = Want
  BY DEF disk, Running, Here, Want
<1>2. Of' = Of
  BY <1>1 DEF Of
<1>3. Place(Of)' = Place(Of)
  BY <1>1, <1>2 DEF Place
<1> QED BY <1>1, <1>2, <1>3 DEF T, R, At, Removing, Writing, Piping

LEMMA SameWork ==
  ASSUME Work, UNCHANGED <<job, disk>>, proc'.status = proc.status, proc'.pc = proc.pc,
         proc'.at = proc.at, proc'.want = proc.want, proc'.rev = proc.rev,
         proc'.update = proc.update
  PROVE  Work'
<1>1. HeadOk' /\ FatfsOk' /\ StampOk'
  BY SameView DEF Work, HeadOk, FatfsOk, StampOk
<1>2. PdkOk' /\ ViewOk'
  BY SameView DEF Work, PdkOk, ViewOk
<1> QED BY <1>1, <1>2 DEF Work

\* When the lock moves to a version no run has seen, no marker names it; when it comes back to
\* one while something is half done, it counts as reverted.
LEMMA HeldMove ==
  ASSUME Held, NEW v \in Versions, Move_lock(v)
  PROVE  Marks' /\ Work' /\ Progress'
<1>0. ProcOk /\ Known /\ Fresh /\ TreeOk /\ RemoveOk /\ GccOk /\ PairOk /\ EnvOk /\ Work /\ v # 0
  BY DEF Held, Types, Marks, Versions
<1>1. /\ lock' = v /\ UNCHANGED <<job, disk, torn>> /\ past' = past \cup {v}
      /\ reverted' = (reverted \/ (v \in past /\ (torn \/ Running)))
      /\ proc' = [proc EXCEPT !.steady = FALSE]
  BY DEF Move_lock
<1>2. /\ proc'.want = proc.want /\ proc'.pc = proc.pc /\ proc'.at = proc.at
      /\ proc'.status = proc.status /\ proc'.rev = proc.rev /\ proc'.update = proc.update
      /\ proc'.steady = FALSE
  BY <1>0, <1>1 DEF ProcOk, ProcType, IsProc
<1>3. /\ UNCHANGED <<tree, repo, pair, env>> /\ (Running' <=> Running) /\ Want' = Want /\ T' = T
      /\ Of' = Of /\ (\A op, at : At(op, at)' <=> At(op, at))
      /\ (\A p : (Removing(p)' <=> Removing(p)) /\ (Writing(p)' <=> Writing(p)))
      /\ (Piping' <=> Piping)
  BY <1>1, <1>2, SameView
<1>4. Work'
  BY <1>0, <1>1, <1>2, SameWork
<1>5. Known'
  BY <1>0, <1>1, <1>2, <1>3 DEF Known
<1>6. ASSUME torn \/ Running, NEW x \in past \cup {0} PROVE reverted' \/ x # lock'
  BY <1>0, <1>1, <1>6
<1>7. Fresh'
  <2> SUFFICES ASSUME Running', ~reverted' PROVE Fresh'
    BY DEF Fresh
  <2>1. \A x \in past \cup {0} : x # lock'
    BY <1>0, <1>1, <1>3
  <2>2. <<"lib", 0>> \in MarkedPlaces
    BY <1>0, MarkedPlace
  <2> QED BY <1>0, <1>3, <2>1, <2>2 DEF Known, Fresh
<1>8. TreeOk'
  <2> SUFFICES ASSUME NEW p \in MarkedPlaces, tree[p].mark # 0, tree[p] # WholeTree(tree[p].mark)
               PROVE  (torn \/ Removing(p)) /\ (reverted' \/ tree[p].mark # lock')
    BY <1>1, <1>3 DEF TreeOk, Other
  <2>1. (torn \/ Removing(p)) /\ tree[p].mark \in past
    BY <1>0 DEF TreeOk, Known
  <2>2. torn \/ Running
    BY <2>1 DEF Removing, At
  <2> QED BY <1>6, <2>1, <2>2
<1>9. RemoveOk'
  <2> SUFFICES ASSUME At("Unpack", "remove")
               PROVE  (reverted' \/ T.mark # lock') /\ (Of = "gcc" => T = Nothing)
    BY <1>3 DEF RemoveOk, Other
  <2>1. Running /\ Of \in MarkedTrees
    BY <1>0, StepOf DEF At
  <2>2. T.mark \in past \cup {0}
    BY <1>0, <2>1, MarkedPlace DEF T, Known
  <2> QED BY <1>0, <1>6, <2>1, <2>2 DEF RemoveOk
<1>10. PairOk'
  <2>1. \A p \in Pairs : pair[p].out = 0 => pair[p].rev = 0
    BY <1>0 DEF PairOk
  <2> SUFFICES ASSUME NEW p \in Pairs, pair[p].rev # 0, pair[p].out # pair[p].rev
               PROVE  (torn \/ Writing(p)) /\ (reverted' \/ pair[p].rev # lock')
    BY <1>1, <1>3, <2>1 DEF PairOk, Other
  <2>2. (torn \/ Writing(p)) /\ pair[p].rev \in past
    BY <1>0 DEF PairOk, Known
  <2>3. torn \/ Running
    BY <2>2 DEF Writing
  <2> QED BY <1>6, <2>2, <2>3
<1>11. EnvOk'
  <2>1. job # "environment" => env.stamp = 0
    BY <1>0 DEF EnvOk
  <2> SUFFICES ASSUME env.stamp # 0, env.packages # env.stamp
               PROVE  (torn \/ Piping) /\ (reverted' \/ env.stamp # lock')
    BY <1>1, <1>3, <2>1 DEF EnvOk, Other
  <2>2. (torn \/ Piping) /\ env.stamp \in past
    BY <1>0 DEF EnvOk, Known
  <2>3. torn \/ Running
    BY <2>2 DEF Piping
  <2> QED BY <1>6, <2>2, <2>3
<1>12. GccOk'
  BY <1>0, <1>3 DEF GccOk
<1>13. Progress'
  BY <1>2 DEF Progress, Sure
<1> QED BY <1>4, <1>5, <1>7, <1>8, <1>9, <1>10, <1>11, <1>12, <1>13 DEF Marks

LEMMA HeldStutter == ASSUME Held, UNCHANGED vars PROVE Marks' /\ Work' /\ Progress'
<1>0. UNCHANGED <<job, lock, proc, disk, torn, past, reverted>> /\ Known /\ Fresh /\ TreeOk
      /\ RemoveOk /\ GccOk /\ PairOk /\ EnvOk /\ Work /\ Progress
  BY DEF Held, Marks, vars
<1>1. Work'
  BY <1>0, SameWork
<1>2. Known' /\ Fresh' /\ GccOk'
  BY <1>0, SameView DEF Known, Fresh, GccOk
<1>3. TreeOk' /\ RemoveOk'
  BY <1>0, SameView DEF TreeOk, RemoveOk, Other
<1>4. PairOk' /\ EnvOk'
  BY <1>0, SameView DEF PairOk, EnvOk, Other
<1>5. Progress'
  <2>1. \A s : Product(s) => Product(s)'
    BY <1>0 DEF disk, Product, Place, Want
  <2>2. \A k : Done(k) => Done(k)'
    BY <1>0, <2>1 DEF Done
  <2> QED BY <1>0, <2>2 DEF Progress, Sure, Running, Want
<1> QED BY <1>1, <1>2, <1>3, <1>4, <1>5 DEF Marks

LEMMA HeldStep == Held /\ [Next]_vars => Held'
<1> SUFFICES ASSUME Held, [Next]_vars PROVE Held'
  OBVIOUS
<1>1. Types'
  BY TypesStep DEF Held
<1>2. Marks' /\ Work' /\ Progress'
  BY HeldContinue, HeldKill, HeldStart, HeldMove, HeldStutter DEF Next
<1> QED BY <1>1, <1>2 DEF Held

LEMMA HeldInit == Init => Held
<1> SUFFICES ASSUME Init PROVE Held
  OBVIOUS
<1>1. Types /\ ~Running /\ proc.status = "idle"
  BY TypesInit DEF Init, Running
<1>2. /\ lock = 1 /\ proc.want = 1 /\ proc.rev = 1 /\ past = {1} /\ env.stamp = 0
      /\ \A p \in Places : tree[p] = Nothing
      /\ \A p \in Pairs : pair[p].out = 0 /\ pair[p].rev = 0
  BY DEF Init
<1>3. \A p \in MarkedPlaces : tree[p].mark = 0
  BY <1>2 DEF MarkedPlaces, Nothing
<1>4. \A v \in Versions : <<"gcc", v>> \in Places
  BY DEF Places
<1>5. Marks
  BY <1>1, <1>2, <1>3, <1>4 DEF Marks, Known, Fresh, TreeOk, RemoveOk, GccOk, PairOk, EnvOk, At
<1>6. Work
  BY <1>1 DEF Work, HeadOk, FatfsOk, PdkOk, ViewOk, Writing, StampOk, At
<1>7. Progress
  BY <1>1 DEF Progress
<1> QED BY <1>1, <1>5, <1>6, <1>7 DEF Held

------------------------------------------------------------------------------
(* What a program that has ended well has made: every product it uses.     *)

LEMMA AllMade ==
  ASSUME Types, Done(Len(Program[job])), NEW of, Used(of)
  PROVE  /\ of \in MarkedTrees => tree[Place(of)] = WholeTree(Want)
         /\ of \in Repos => repo[of].head = Want /\ (of \in Recursive => repo[of].sub = Want)
         /\ of \in Pairs => pair[of].out = Want /\ pair[of].rev = Want
         /\ of = "fatfs" /\ proc.update => \A i \in Pieces : tree[<<"fatfs", 0>>].files[i] = Want
         /\ of = "core" => tree[<<"core", 0>>].files = tree[<<"serv", 0>>].files
         /\ of = "venv" => env.packages = Want
<1>1. Shaped(job, Program[job])
  BY ProgramShape DEF Types, ProcOk
<1>2. PICK i \in 1 .. Len(Program[job]) :
        Program[job][i].of = of /\ Program[job][i].op \notin {"Download", "Download_urls"}
  BY DEF Used
<1>3. \A k \in 1 .. Len(Program[job]) : Product(Program[job][k])
  BY DEF Done
<1>4. Makes(Program[job], Program[job][i])
  BY <1>1, <1>2 DEF Shaped
<1>5. ASSUME of \in MarkedTrees PROVE tree[Place(of)] = WholeTree(Want)
  <2>1. Product(Step("Unpack", of))
    BY <1>2, <1>3, <1>4, <1>5 DEF Makes
  <2> QED BY <2>1 DEF Product, Step
<1>6. ASSUME of \in Repos PROVE repo[of].head = Want /\ (of \in Recursive => repo[of].sub = Want)
  <2>1. Product(Step("Git", of))
    BY <1>2, <1>3, <1>4, <1>6 DEF Makes
  <2> QED BY <2>1 DEF Product, Step
<1>7. ASSUME of \in Pairs PROVE pair[of].out = Want /\ pair[of].rev = Want
  BY <1>2, <1>3, <1>4, <1>7 DEF Makes, Product
<1>8. ASSUME of = "fatfs", proc.update PROVE \A k \in Pieces : tree[<<"fatfs", 0>>].files[k] = Want
  <2>1. Product(Step("Extract_fatfs", "fatfs"))
    BY <1>2, <1>3, <1>4, <1>8 DEF Makes
  <2> QED BY <1>8, <2>1 DEF Product, Step
<1>9. ASSUME of = "core" PROVE tree[<<"core", 0>>].files = tree[<<"serv", 0>>].files
  BY <1>2, <1>3, <1>4, <1>9 DEF Makes, Product
<1>10. ASSUME of = "venv" PROVE env.packages = Want
  <2>1. Product(Step("Pip", "venv"))
    BY <1>2, <1>3, <1>4, <1>10 DEF Makes
  <2> QED BY <2>1 DEF Product, Step
<1> QED BY <1>5, <1>6, <1>7, <1>8, <1>9, <1>10

LEMMA HeldIsWhole == Held => ReadyIsWhole
<1> SUFFICES ASSUME Held, proc.status = "ok", proc.steady, ~reverted PROVE ReadyIsWhole
  BY DEF ReadyIsWhole
<1>1. Types /\ Done(Len(Program[job]))
  BY DEF Held, Progress, Sure
<1>2. \A t \in MarkedTrees : Used(t) =>
        tree[Place(t)] = [there |-> TRUE, mark |-> Want, files |-> [i \in Pieces |-> Want]]
  BY <1>1, AllMade DEF WholeTree
<1>3. \A r \in Repos : Used(r) => repo[r].head = Want /\ (r \in Recursive => repo[r].sub = Want)
  BY <1>1, AllMade
<1>4. \A p \in Pairs : Used(p) => pair[p] = [out |-> Want, rev |-> Want]
  <2>1. \A p \in Pairs : Used(p) => pair[p].out = Want /\ pair[p].rev = Want
    BY <1>1, AllMade
  <2>2. pair \in [Pairs -> PairType]
    BY <1>1 DEF Types, DiskOk
  <2> QED BY <2>1, <2>2 DEF PairType
<1>5. /\ Used("fatfs") /\ proc.update => \A i \in Pieces : tree[<<"fatfs", 0>>].files[i] = Want
      /\ Used("core") => tree[<<"core", 0>>].files = tree[<<"serv", 0>>].files
      /\ Used("venv") => env.packages = Want
  BY <1>1, AllMade
<1>6. job = "environment" => env.stamp = Want /\ env.active = Want
  <2> SUFFICES ASSUME job = "environment" PROVE env.stamp = Want /\ env.active = Want
    OBVIOUS
  <2>1. Product(Step("Write_stamp", "venv")) /\ Product(Step("Write_activation", "venv"))
    BY <1>1, Steps_environment DEF Done
  <2> QED BY <2>1 DEF Product, Step
<1> QED BY <1>2, <1>3, <1>4, <1>5, <1>6 DEF ReadyIsWhole

\* ReadyIsWhole for any number of lock versions, pieces of an archive, kills, cuts, lock moves
\* and restarts, under its two conditions: the lock stood still during the run (proc.steady)
\* and never came back, after a run that ended early, to a version it had pinned before
\* (~reverted; there the programs trust a mark that a killed replacement left standing).
\* Then a setup program that ends well has installed what the lock pins, whole, whatever
\* the runs before it left on the disk when they were killed or cut
\* (install_toolchain.py, setup_apu_reference.py, prepare_ics55_liberty.py,
\* generate_gf180_liberty.py, development_environment.py).
THEOREM ReadyStaysWhole == Spec => []ReadyIsWhole
BY HeldInit, HeldStep, HeldIsWhole, PTL DEF Spec

------------------------------------------------------------------------------
(* The provenance of P7.                                                   *)

Sources == {"tiny", "mfcc"}

P7Types ==
  /\ IsProc(proc) /\ proc.pc \in 1 .. 5
  /\ Sources \subseteq DOMAIN proc.notes
  /\ Sources \subseteq DOMAIN repo
  /\ \A r \in Sources : "head" \in DOMAIN repo[r]

\* A checkout holds the version its step works for from the submodules on, the note
\* taken next names that version, and no later step of the program touches either -
\* while the lock may move at any of these points.
P7Notes ==
  /\ proc.pc = 1 /\ proc.at = "submodule" => repo["tiny"].head = proc.want
  /\ proc.pc = 2 => repo["tiny"].head = proc.want
  /\ proc.pc \in {3, 4, 5} => proc.notes["tiny"] = repo["tiny"].head
  /\ proc.pc = 3 /\ proc.at = "submodule" => repo["mfcc"].head = proc.want
  /\ proc.pc = 4 => repo["mfcc"].head = proc.want
  /\ proc.pc = 5 => proc.notes["mfcc"] = repo["mfcc"].head

P7Inv ==
  /\ P7Types
  /\ proc.status = "running" => P7Notes
  /\ proc.status = "ok" => \A r \in Sources : record[r] = repo[r].head

LEMMA P7Program ==
  ASSUME job = "apu_p7"
  PROVE  /\ Program[job] = Setup_apu_p7 /\ Len(Program[job]) = 5
         /\ Program[job][1] = Step("Git", "tiny") /\ Program[job][2] = Step("Note", "tiny")
         /\ Program[job][3] = Step("Git", "mfcc") /\ Program[job][4] = Step("Note", "mfcc")
         /\ Program[job][5] = Step("P7_provenance", "tiny")
<1>1. Program[job] = Setup_apu_p7
  BY DEF Program
<1> QED BY <1>1 DEF Setup_apu_p7

LEMMA P7Here ==
  ASSUME job = "apu_p7", P7Types
  PROVE  /\ Here.op \in {"Git", "Note", "P7_provenance"}
         /\ Here.op = "Git" => proc.pc \in {1, 3}
         /\ Here.op = "Note" => proc.pc \in {2, 4}
         /\ Here.op = "P7_provenance" => proc.pc = 5
         /\ Of = IF proc.pc \in {3, 4} THEN "mfcc" ELSE "tiny"
<1>1. proc.pc \in {1, 2, 3, 4, 5}
  BY DEF P7Types
<1> QED BY <1>1, P7Program DEF Here, Of, Step

LEMMA P7Entering ==
  ASSUME job = "apu_p7", P7Types
  PROVE  LET p == Entering(proc, proc.pc + 1)
         IN  /\ IsProc(p) /\ p.at = "start" /\ p.notes = proc.notes
             /\ proc.pc = 5 => p.status = "ok" /\ p.pc = 1
             /\ proc.pc # 5 => p.status = proc.status /\ p.pc = proc.pc + 1
             /\ proc.pc \in {1, 3} => p.want = proc.want
<1> DEFINE p == Entering(proc, proc.pc + 1)
<1>1. IsProc(proc) /\ proc.pc \in {1, 2, 3, 4, 5}
  BY DEF P7Types
<1>2. Len(Program[job]) = 5
  BY P7Program
<1>3. CASE proc.pc = 5
  <2>1. p = [proc EXCEPT !.status = "ok", !.pc = 1, !.at = "start", !.buffer = <<>>, !.tries = 0]
    BY <1>2, <1>3 DEF Entering
  <2> QED BY <1>1, <1>3, <2>1 DEF IsProc
<1>4. CASE proc.pc # 5
  <2> DEFINE n == proc.pc + 1
             read == Reads(n)
             git == Program[job][n].op = "Git"
  <2>1. n \in {2, 3, 4, 5} /\ ~(n > Len(Program[job]))
    BY <1>1, <1>2, <1>4
  <2>2. proc.pc \in {1, 3} => ~read
    <3>1. CASE proc.pc = 1
      BY <3>1, P7Program DEF Reads, Step
    <3>2. CASE proc.pc = 3
      BY <3>2, P7Program DEF Reads, Step
    <3> QED BY <3>1, <3>2
  <2>3. p = [proc EXCEPT !.pc = n, !.at = "start", !.buffer = <<>>, !.tries = 0,
                         !.want = IF read THEN lock ELSE @,
                         !.rev = IF read /\ git THEN lock ELSE @]
    BY <2>1 DEF Entering
  <2> HIDE DEF n, read, git
  <2>4. /\ IsProc(p) /\ p.at = "start" /\ p.notes = proc.notes
        /\ p.status = proc.status /\ p.pc = n
        /\ p.want = IF read THEN lock ELSE proc.want
    BY <1>1, <2>3 DEF IsProc
  <2> QED BY <1>4, <2>2, <2>4 DEF n
<1> QED BY <1>3, <1>4

LEMMA P7Jump ==
  ASSUME job = "apu_p7", P7Inv, Running, Jump(1)
  PROVE  /\ IsProc(proc') /\ proc'.at = "start" /\ proc'.notes = proc.notes
         /\ proc.pc = 5 => proc'.status = "ok" /\ proc'.pc = 1
         /\ proc.pc # 5 => proc'.status = "running" /\ proc'.pc = proc.pc + 1
         /\ proc.pc \in {1, 3} => proc'.want = proc.want
BY P7Entering DEF P7Inv, Jump, Running

LEMMA P7Fail ==
  ASSUME P7Inv, Fail, UNCHANGED repo
  PROVE  P7Inv'
<1>1. IsProc(proc') /\ proc'.status = "failed" /\ proc'.pc = 1 /\ proc'.notes = proc.notes
  BY DEF Fail, P7Inv, P7Types, IsProc
<1> QED BY <1>1 DEF P7Inv, P7Types

LEMMA P7Git ==
  ASSUME job = "apu_p7", P7Inv,
         Ensure_git_repo \/ Git_init \/ Git_checkout \/ Git_submodule
  PROVE  P7Inv'
<1>0. /\ P7Types /\ Running /\ Here.op = "Git" /\ P7Notes
  BY DEF P7Inv, Ensure_git_repo, Git_init, Git_checkout, Git_submodule, At, Running
<1>1. /\ proc.pc \in {1, 3} /\ Of = (IF proc.pc = 3 THEN "mfcc" ELSE "tiny")
      /\ Of \in Sources /\ Of \in DOMAIN repo /\ "head" \in DOMAIN repo[Of]
  BY <1>0, P7Here DEF P7Types, Sources
<1>2. ASSUME NEW at, Go(at), repo' = repo \/ \E r : SetRepo(r) /\ "head" \in DOMAIN r,
             at = "submodule" => repo'[Of].head = Want
      PROVE  P7Inv'
  <2>1. /\ IsProc(proc') /\ proc'.at = at /\ proc'.notes = proc.notes /\ proc'.pc = proc.pc
        /\ proc'.want = proc.want /\ proc'.status = "running"
    BY <1>0, <1>2 DEF Go, P7Types, IsProc, Running
  <2>2. /\ DOMAIN repo' = DOMAIN repo /\ \A x \in Sources : "head" \in DOMAIN repo'[x]
        /\ \A x \in Sources \ {Of} : repo'[x] = repo[x]
    <3>1. CASE repo' = repo
      BY <1>0, <3>1 DEF P7Types
    <3>2. CASE \E r : SetRepo(r) /\ "head" \in DOMAIN r
      BY <1>0, <1>1, <3>2 DEF P7Types, SetRepo
    <3> QED BY <1>2, <3>1, <3>2
  <2>3. P7Types'
    BY <1>0, <2>1, <2>2 DEF P7Types
  <2>4. P7Notes'
    BY <1>0, <1>1, <1>2, <2>1, <2>2 DEF P7Notes, Sources, Want
  <2> QED BY <2>1, <2>3, <2>4 DEF P7Inv
<1>3. CASE Ensure_git_repo
  <2>1. repo' = repo /\ (Fail \/ \E at \in {"init", "fetch", "submodule"} :
                                   Go(at) /\ (at = "submodule" => R.head = Want))
    BY <1>3 DEF Ensure_git_repo, disk
  <2> QED BY <1>2, <2>1, P7Fail DEF R
<1>4. CASE Git_init
  <2>1. SetRepo([R EXCEPT !.git = TRUE]) /\ Go("fetch") /\ "head" \in DOMAIN [R EXCEPT !.git = TRUE]
    BY <1>1, <1>4 DEF Git_init, R
  <2> QED BY <1>2, <2>1
<1>5. CASE Git_checkout
  <2>1. CASE SetRepo([R EXCEPT !.head = Want]) /\ Go("submodule")
    <3>1. "head" \in DOMAIN [R EXCEPT !.head = Want] /\ [R EXCEPT !.head = Want].head = Want
      BY <1>1 DEF R
    <3>2. repo'[Of].head = Want
      BY <1>1, <2>1, <3>1 DEF SetRepo
    <3> QED BY <1>2, <2>1, <3>1, <3>2
  <2>2. CASE Fail /\ UNCHANGED disk
    BY <2>2, P7Fail DEF disk
  <2> QED BY <1>5, <2>1, <2>2 DEF Git_checkout
<1>6. CASE Git_submodule
  <2>1. Jump(1) /\ repo' = repo /\ proc.at = "submodule"
    BY <1>1, <1>6 DEF Git_submodule, Recursive, Sources, At, disk
  <2>2. /\ IsProc(proc') /\ proc'.notes = proc.notes /\ proc'.status = "running"
        /\ proc'.pc = proc.pc + 1 /\ proc'.want = proc.want
    BY <1>0, <1>1, <2>1, P7Jump
  <2>3. P7Types'
    BY <1>0, <1>1, <2>1, <2>2 DEF P7Types
  <2>4. P7Notes'
    BY <1>0, <1>1, <2>1, <2>2 DEF P7Notes
  <2> QED BY <2>2, <2>3, <2>4 DEF P7Inv
<1> QED BY <1>3, <1>4, <1>5, <1>6

LEMMA P7Note == ASSUME job = "apu_p7", P7Inv, Note PROVE P7Inv'
<1>0. /\ P7Types /\ proc.status = "running" /\ Here.op = "Note" /\ P7Notes
  BY DEF P7Inv, Note, At, Running
<1>1. proc.pc \in {2, 4} /\ Of = IF proc.pc = 4 THEN "mfcc" ELSE "tiny"
  BY <1>0, P7Here
<1> DEFINE p == Entering(proc, proc.pc + 1)
<1>2. /\ IsProc(p) /\ p.notes = proc.notes /\ p.status = "running" /\ p.pc = proc.pc + 1
      /\ p.at = "start"
  BY <1>0, <1>1, P7Entering
<1> HIDE DEF p
<1>3. proc' = [p EXCEPT !.notes[Of] = Want] /\ repo' = repo
  BY DEF Note, disk, p
<1>4. /\ IsProc(proc') /\ proc'.status = "running" /\ proc'.pc = proc.pc + 1
      /\ proc'.at = "start"
      /\ proc'.notes = [proc.notes EXCEPT ![Of] = Want]
  BY <1>2, <1>3 DEF IsProc
<1>5. /\ DOMAIN proc'.notes = DOMAIN proc.notes
      /\ proc'.notes[Of] = proc.want
      /\ \A r \in Sources \ {Of} : proc'.notes[r] = proc.notes[r]
  BY <1>0, <1>1, <1>4 DEF P7Types, Sources, Want
<1>6. P7Types'
  BY <1>0, <1>1, <1>3, <1>4, <1>5 DEF P7Types
<1>7. P7Notes'
  BY <1>0, <1>1, <1>3, <1>4, <1>5 DEF P7Notes, Sources
<1> QED BY <1>4, <1>6, <1>7 DEF P7Inv

LEMMA P7Record == ASSUME job = "apu_p7", P7Inv, P7_provenance PROVE P7Inv'
<1>0. /\ P7Types /\ Running /\ Here.op = "P7_provenance" /\ P7Notes
      /\ record' = proc.notes /\ repo' = repo /\ Jump(1)
  BY DEF P7Inv, P7_provenance, At, Running
<1>1. proc.pc = 5
  BY <1>0, P7Here
<1>2. IsProc(proc') /\ proc'.notes = proc.notes /\ proc'.status = "ok" /\ proc'.pc = 1
  BY <1>0, <1>1, P7Jump
<1>3. P7Types'
  BY <1>0, <1>2 DEF P7Types
<1> QED BY <1>0, <1>1, <1>2, <1>3 DEF P7Inv, P7Notes, Sources

LEMMA P7Continue == ASSUME job = "apu_p7", P7Inv, Continue \/ Cut PROVE P7Inv'
<1>1. Here.op \in {"Git", "Note", "P7_provenance"}
  BY P7Here DEF P7Inv
<1>2. /\ ~Download_file /\ ~Request /\ ~Range_refused /\ ~Receive /\ ~Verify /\ ~Replace /\ ~Cut
  BY <1>1 DEF Download_file, Request, Range_refused, Receive, Verify, Replace, Cut, Downloads
<1>3. /\ ~Repair_incomplete_checkout /\ ~Marked /\ ~Unpack /\ ~Remove_old /\ ~Replace_tree
      /\ ~Validate_notices /\ ~Extract_fatfs /\ ~Remove_fatfs /\ ~Extract_serv /\ ~Extractall
      /\ ~Patch /\ ~Sync_tree /\ ~Remove_core /\ ~Copytree /\ ~Patch_coremark
  BY <1>1 DEF Repair_incomplete_checkout, Marked, Unpack, Remove_old, Replace_tree,
     Validate_notices, Extract_fatfs, Remove_fatfs, Extract_serv, Extractall, Patch, Sync_tree,
     Remove_core, Copytree, Patch_coremark, At
<1>4. /\ ~Extract_vww_jpegs /\ ~Write_jpeg /\ ~Decode_vww_bins /\ ~Write_bin /\ ~Npu_provenance
      /\ ~Generate_liberty /\ ~Prepare_sim_model /\ ~Write_revision
  BY <1>1 DEF Extract_vww_jpegs, Write_jpeg, Decode_vww_bins, Write_bin, Npu_provenance,
     Generate_liberty, Prepare_sim_model, Write_revision, At
<1>5. /\ ~Has_environment /\ ~Create_virtualenv /\ ~Ensure_pip /\ ~Pip_install /\ ~Pip_ends
      /\ ~Write_stamp /\ ~Write_activation /\ ~Check
  BY <1>1 DEF Has_environment, Create_virtualenv, Ensure_pip, Pip_install, Pip_ends,
     Write_stamp, Write_activation, Check, At
<1> QED BY <1>2, <1>3, <1>4, <1>5, P7Git, P7Note, P7Record DEF Continue

LEMMA P7Step ==
  (job = "apu_p7" => P7Inv) /\ [Next]_vars => (job = "apu_p7" => P7Inv)'
<1>1. [Next]_vars => job' = job
  BY FrameKept DEF Next, Kill, Start, Move_lock, vars
<1> SUFFICES ASSUME job = "apu_p7", P7Inv, [Next]_vars PROVE P7Inv'
  BY <1>1
<1>2. CASE Continue \/ Cut
  BY <1>2, P7Continue
<1>3. CASE Kill
  BY <1>3, P7Fail DEF Kill, disk
<1>4. ASSUME NEW update, Start(update) PROVE P7Inv'
  <2>1. /\ IsProc(proc') /\ proc'.status = "running" /\ proc'.pc = 1 /\ proc'.at = "start"
        /\ proc'.notes = proc.notes /\ repo' = repo
    BY <1>4 DEF Start, IsProc, disk
  <2> QED BY <2>1 DEF P7Inv, P7Types, P7Notes
<1>5. ASSUME NEW v, Move_lock(v) PROVE P7Inv'
  <2>1. /\ UNCHANGED <<repo, record>> /\ proc' = [proc EXCEPT !.steady = FALSE]
    BY <1>5 DEF Move_lock, disk
  <2>2. /\ IsProc(proc') /\ proc'.status = proc.status /\ proc'.pc = proc.pc
        /\ proc'.at = proc.at /\ proc'.notes = proc.notes /\ proc'.want = proc.want
    BY <2>1 DEF P7Inv, P7Types, IsProc
  <2> QED BY <2>1, <2>2 DEF P7Inv, P7Types, P7Notes
<1>6. CASE UNCHANGED vars
  BY <1>6 DEF vars, disk, P7Inv, P7Types, P7Notes
<1> QED BY <1>2, <1>3, <1>4, <1>5, <1>6 DEF Next

\* RecordTrue for any number of lock versions, kills, cuts, lock moves and restarts: when
\* the P7 setup succeeds, its provenance names the revision of each checkout, because it
\* records what it installed and not what the lock says at the end.
THEOREM RecordStaysTrue == Spec => []RecordTrue
<1>1. Init => (job = "apu_p7" => P7Inv)
  BY DEF Init, P7Inv, P7Types, IsProc, Sources, Repos
<1>2. (job = "apu_p7" => P7Inv) => RecordTrue
  BY DEF P7Inv, RecordTrue, Sources
<1> QED BY <1>1, <1>2, P7Step, PTL DEF Spec
==============================================================================
