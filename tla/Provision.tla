------------------------------ MODULE Provision ------------------------------
(***************************************************************************)
(* Installing what the dependency lock pins: setup_helpers.py (locked Git  *)
(* checkouts, verified and resumable downloads, atomic writes) and the     *)
(* setup programs built from it.  A program is a sequence of steps; a step *)
(* is one or several writes to the disk, and the program may be killed, or *)
(* its download cut, between any two of them.  Between and during runs the *)
(* lock may move to another version, as it does with a checkout of the     *)
(* repository, and the user starts the program again, with or without      *)
(* --update.                                                               *)
(*                                                                         *)
(* Contents are versions of the lock: 0 stands for nothing.  An archive is *)
(* the sequence of its Size pieces, each of one version; wrong bytes from  *)
(* a server are the version Wrong.                                         *)
(***************************************************************************)
EXTENDS Naturals, Sequences, FiniteSets, FiniteSetsExt

CONSTANTS Jobs,       \* the setup programs to look at
          MaxLock,    \* versions of the lock
          Size,       \* pieces of an archive
          Retries,    \* attempts of a download
          MaxKills,   \* times a program is killed
          MaxCuts,    \* times a download is cut or delivers wrong bytes
          MaxMoves,   \* times the lock moves
          MaxRuns     \* times the user starts the program without --update

ASSUME ProvisionAssumption ==
    /\ MaxLock \in Nat \ {0} /\ Size \in Nat \ {0} /\ Retries \in Nat \ {0}
    /\ {MaxKills, MaxCuts, MaxMoves, MaxRuns} \subseteq Nat

VARIABLES job,      \* the setup program of this behaviour
          lock,     \* the version the lock file pins
          proc,     \* the running program
          archive,  \* per archive: its pieces, <<>> when absent
          partial,  \* per archive: the pieces in .<name>.partial
          tree,     \* per directory: there or not, its marker, its files
          repo,     \* per checkout: [git, head, sub, patched]
          pair,     \* per generated view: [out, rev]
          env,      \* the virtual environment, the stamp and the activation
          record,   \* per source: the revision provenance.json names
          budget,   \* what is left of the bounds
          torn,     \* a run ended early
          past,     \* the versions the lock has pinned
          reverted  \* the lock came back to one of them after a run that ended early

disk == <<archive, partial, tree, repo, pair, env, record>>
vars == <<job, lock, proc, disk, budget, torn, past, reverted>>

Versions == 1..MaxLock
Wrong    == MaxLock + 1
Whole(v) == [i \in 1..Size |-> v]
Pieces   == 1..2

\* Names of the archives, directories, checkouts and views the programs use.
Archives == {"gcc", "fatfs", "libflac", "corpus", "vww", "lib", "sram", "serv"}
Trees    == {"gcc", "fatfs", "libflac", "corpus", "jpeg", "bins", "lib", "sram",
             "openram", "serv", "core"}
Repos    == {"os", "coremark", "tiny", "mfcc", "linux", "sbi", "pdk", "pll"}
Pairs    == {"tt", "ss", "cells"}

\* A toolchain has a directory for each version, the others have one.
Places   == {<<t, 0>> : t \in Trees \ {"gcc"}} \cup {<<"gcc", v>> : v \in Versions}
Nothing  == [there |-> FALSE, mark |-> 0, files |-> [i \in Pieces |-> 0]]

\* Archives with resume set: the corpus, and the toolchains whose lock entry says so.
Resume   == {"corpus", "gcc"}
\* Checkouts with recursive set.
Recursive == {"pdk"}

Step(op, of) == [op |-> op, of |-> of]

------------------------------------------------------------------------------
(* The setup programs.                                                     *)

Development_environment == <<Step("Has_environment", "gcc"), Step("Download", "gcc"),
    Step("Unpack", "gcc"), Step("Create_virtualenv", "venv"), Step("Pip", "venv"),
    Step("Write_stamp", "venv"), Step("Write_activation", "venv"), Step("Check", "venv")>>

Setup_hp_rtthread == <<Step("Git", "os"), Step("Download", "gcc"), Step("Unpack", "gcc"),
    Step("Create_virtualenv", "venv"), Step("Pip", "venv")>>

App_setup == <<Step("Download", "fatfs"), Step("Extract_fatfs", "fatfs"),
    Step("Patch_fatfs", "fatfs"), Step("Git", "coremark"), Step("Patch_coremark", "coremark")>>

Setup_apu_p5 == <<Step("Marked", "libflac"), Step("Download", "libflac"),
    Step("Unpack", "libflac"), Step("Marked", "corpus"), Step("Download", "corpus"),
    Step("Unpack", "corpus"), Step("Validate_notices", "libflac")>>

Setup_apu_p7 == <<Step("Git", "tiny"), Step("Note", "tiny"), Step("Git", "mfcc"),
    Step("Note", "mfcc"), Step("P7_provenance", "tiny")>>

Setup_npu == <<Step("Git", "tiny"), Step("Git", "mfcc"), Step("Download_urls", "vww"),
    Step("Extract_vww_jpegs", "jpeg"), Step("Decode_vww_bins", "bins"),
    Step("Npu_provenance", "tiny")>>

Setup_hp_linux == <<Step("Repair", "sbi"), Step("Git", "sbi"), Step("Repair", "linux"),
    Step("Git", "linux")>>

Setup_sources == <<Step("Git", "os"), Step("Git", "pdk")>>

\* Every PDK begins with its checkout; ICS55 ends with a second one.
Pdk_source == <<Step("Git", "pdk")>>
Setup_ics55_pll == <<Step("Git", "pll")>>

Pdk_gf180 == Pdk_source \o <<Step("Generate_liberty", "tt"),
    Step("Generate_liberty", "ss")>>

Pdk_sky130 == Pdk_source \o <<Step("Generate_liberty", "tt"), Step("Download", "sram"),
    Step("Unpack", "openram"), Step("Generate_liberty", "ss")>>

\* Mutant: the timing views are prepared after the SRAM views below them.
MutPdk_ics55 == Pdk_source \o <<Step("Download", "sram"), Step("Unpack", "sram"),
    Step("Download", "lib"), Step("Unpack", "lib"), Step("Prepare_sim_model", "cells")>>
    \o Setup_ics55_pll

Pdk_ics55 == Pdk_source \o <<Step("Download", "lib"), Step("Unpack", "lib"),
    Step("Download", "sram"), Step("Unpack", "sram"), Step("Prepare_sim_model", "cells")>>
    \o Setup_ics55_pll

Prepare_mpw == <<Step("Download", "serv"), Step("Extract_serv", "serv"),
    Step("Patch_serv", "serv"), Step("Sync_tree", "core")>>

Program == [environment |-> Development_environment, rtthread |-> Setup_hp_rtthread,
            app |-> App_setup, apu_p5 |-> Setup_apu_p5, apu_p7 |-> Setup_apu_p7,
            npu |-> Setup_npu, hp_linux |-> Setup_hp_linux, sources |-> Setup_sources,
            gf180 |-> Pdk_gf180, sky130 |-> Pdk_sky130, ics55 |-> Pdk_ics55,
            mpw |-> Prepare_mpw]

ASSUME JobsAssumption == Jobs \subseteq DOMAIN Program

\* Programs that load the lock once; the others read it again for every entry.
Load_lock == {"environment", "rtthread"}

Here     == Program[job][proc.pc]
Of       == Here.of
Running  == proc.status = "running"
At(op, at) == Running /\ Here.op = op /\ proc.at = at
Want     == proc.want
Used(of) == \E i \in 1..Len(Program[job]) :
                Program[job][i].of = of /\ Program[job][i].op \notin {"Download", "Download_urls"}

\* The archive a directory is made from.
ArchiveOf(t) == CASE t = "openram" -> "sram" [] OTHER -> t

------------------------------------------------------------------------------
(* Control of a run.                                                       *)

\* Steps that read the entry they work on; the others use the one read before them.
Reads(pc) ==
    LET op == Program[job][pc].op
        before == IF pc = 1 THEN "none" ELSE Program[job][pc - 1].op
    IN  /\ job \notin Load_lock
        /\ \/ op \in {"Marked", "Repair", "Download_urls", "Npu_provenance"}
           \/ op = "Git" /\ before # "Repair"
           \/ op = "Download" /\ before # "Marked"

Entering(p, pc) ==
    IF pc > Len(Program[job])
    THEN [p EXCEPT !.status = "ok", !.pc = 1, !.at = "start", !.buffer = <<>>, !.tries = 0]
    ELSE [p EXCEPT !.pc = pc, !.at = "start", !.buffer = <<>>, !.tries = 0,
                   !.want = IF Reads(pc) THEN lock ELSE @,
                   !.rev = IF Reads(pc) /\ Program[job][pc].op = "Git" THEN lock ELSE @]
Jump(n)  == proc' = Entering(proc, proc.pc + n) /\ UNCHANGED torn
Go(at)   == proc' = [proc EXCEPT !.at = at] /\ UNCHANGED torn
Fail     == /\ proc' = [proc EXCEPT !.status = "failed", !.pc = 1, !.at = "start",
                                    !.buffer = <<>>, !.tries = 0]
            /\ torn' = TRUE
Frame    == UNCHANGED <<job, lock, past, budget, reverted>>
Spend(b) == budget[b] > 0 /\ budget' = [budget EXCEPT ![b] = @ - 1]

Start(update) ==
    /\ ~Running
    /\ proc' = [status |-> "running", pc |-> 1, at |-> "start", want |-> lock, rev |-> lock,
                update |-> update, steady |-> TRUE, buffer |-> <<>>, tries |-> 0,
                notes |-> proc.notes]
    /\ IF update THEN UNCHANGED budget ELSE Spend("runs")
    /\ UNCHANGED <<job, lock, past, disk, torn, reverted>>

\* SIGKILL, a power cut or Ctrl-C between two writes.
Kill ==
    /\ Running /\ Spend("kills")
    /\ Fail
    /\ UNCHANGED <<job, lock, past, disk, reverted>>

\* The lock file changes with the checkout of the repository.
Move_lock(v) ==
    /\ v # lock /\ Spend("moves")
    /\ lock' = v
    /\ proc' = [proc EXCEPT !.steady = FALSE]
    /\ past' = past \cup {v}
    /\ reverted' = (reverted \/ (v \in past /\ (torn \/ Running)))
    /\ UNCHANGED <<job, disk, torn>>

------------------------------------------------------------------------------
(* setup_helpers.download_file: an archive that is there is verified and   *)
(* kept, or replaced only with --update; otherwise it is fetched into a    *)
(* temporary file, or into the partial file it continues, verified, and    *)
(* moved into place.                                                       *)

Downloads == Running /\ Here.op \in {"Download", "Download_urls"}

Download_file ==
    /\ Downloads /\ proc.at = "start"
    /\ CASE archive[Of] = Whole(Want) -> Jump(1)
         [] archive[Of] \notin {<<>>, Whole(Want)} /\ ~proc.update -> Fail
         [] OTHER -> Go("request")
    /\ Frame /\ UNCHANGED disk

\* The reply: nothing to continue with is fetched from the start; a range is
\* answered with the rest (206), with everything (200), or, when nothing is
\* left of it, with an error.
Request ==
    /\ Downloads /\ proc.at = "request"
    /\ LET old == IF Of \in Resume THEN partial[Of] ELSE <<>>
       IN  \E reply \in {<<>>, old} :
             /\ reply # <<>> => Len(old) < Size
             /\ proc' = [proc EXCEPT !.at = "body", !.buffer = reply]
             /\ partial' = IF Of \in Resume THEN [partial EXCEPT ![Of] = reply] ELSE partial
    /\ Frame /\ UNCHANGED <<torn, archive, tree, repo, pair, env, record>>

\* The attempt failed: another one, the next mirror, or the end.
Attempt_failed ==
    IF proc.tries + 1 < Retries * (IF Here.op = "Download_urls" THEN 2 ELSE 1)
    THEN proc' = [proc EXCEPT !.at = "request", !.buffer = <<>>, !.tries = @ + 1] /\ UNCHANGED torn
    ELSE Fail

Range_refused ==
    /\ Downloads /\ proc.at = "request"
    /\ Of \in Resume /\ Len(partial[Of]) = Size
    /\ Attempt_failed
    /\ Frame /\ UNCHANGED disk

\* The next piece arrives, of the locked bytes or wrong.
Receive ==
    /\ Downloads /\ proc.at = "body" /\ Len(proc.buffer) < Size
    /\ \E v \in {Want, Wrong} :
         /\ IF v = Wrong THEN Spend("cuts") ELSE UNCHANGED budget
         /\ proc' = [proc EXCEPT !.buffer = Append(@, v)]
         /\ partial' = IF Of \in Resume THEN [partial EXCEPT ![Of] = Append(@, v)] ELSE partial
    /\ UNCHANGED <<job, lock, past, reverted, torn, archive, tree, repo, pair, env, record>>

\* The connection breaks, or the server is not reached.
Cut ==
    /\ Downloads /\ proc.at \in {"request", "body"} /\ Spend("cuts")
    /\ Attempt_failed
    /\ UNCHANGED <<job, lock, past, reverted, disk>>

\* The checksum of what arrived: a mismatch discards the partial file.
Verify ==
    /\ Downloads /\ proc.at = "body" /\ Len(proc.buffer) = Size
    /\ IF proc.buffer = Whole(Want) THEN Go("replace") /\ UNCHANGED disk
       ELSE /\ Attempt_failed
            /\ partial' = [partial EXCEPT ![Of] = <<>>]
            /\ UNCHANGED <<archive, tree, repo, pair, env, record>>
    /\ Frame

Replace ==
    /\ Downloads /\ proc.at = "replace"
    /\ archive' = [archive EXCEPT ![Of] = proc.buffer]
    /\ partial' = [partial EXCEPT ![Of] = <<>>]
    /\ Jump(1)
    /\ Frame /\ UNCHANGED <<tree, repo, pair, env, record>>

------------------------------------------------------------------------------
(* setup_helpers.ensure_git_repo and the repair of an interrupted fetch.   *)

\* A submodule left behind shows in git status, as a patch does.
Dirty(r) == r.patched > 0 \/ r.sub \notin {0, r.head}
SetRepo(r) == /\ repo' = [repo EXCEPT ![Of] = r]
              /\ UNCHANGED <<archive, partial, tree, pair, env, record>>
R == repo[Of]

Ensure_git_repo ==
    /\ At("Git", "start")
    /\ CASE ~R.git -> Go("init") /\ UNCHANGED disk
         [] R.git /\ R.head = 0 -> Fail /\ UNCHANGED disk
         [] R.head \notin {0, Want} ->
              /\ IF ~proc.update \/ Dirty(R) THEN Fail ELSE Go("fetch")
              /\ UNCHANGED disk
         [] R.head = Want ->
              /\ IF Dirty(R) /\ Of # "coremark" THEN Fail ELSE Go("submodule")
              /\ UNCHANGED disk
    /\ Frame

\* git init and git remote add.
Git_init ==
    /\ At("Git", "init")
    /\ SetRepo([R EXCEPT !.git = TRUE]) /\ Go("fetch")
    /\ Frame

\* git fetch and git checkout: without the fetch there is nothing to check out.
Git_checkout ==
    /\ At("Git", "fetch")
    /\ \/ SetRepo([R EXCEPT !.head = Want]) /\ Go("submodule") /\ UNCHANGED budget
       \/ Spend("cuts") /\ Fail /\ UNCHANGED disk
    /\ UNCHANGED <<job, lock, past, reverted>>

Git_submodule ==
    /\ At("Git", "submodule")
    /\ IF Of \in Recursive THEN SetRepo([R EXCEPT !.sub = R.head]) ELSE UNCHANGED disk
    /\ Jump(1)
    /\ Frame

\* Mutant: a checkout without a commit is left as it is.
MutRepair ==
    /\ At("Repair", "start")
    /\ Jump(1) /\ UNCHANGED <<disk, budget>>
    /\ UNCHANGED <<job, lock, past, reverted>>

Repair_incomplete_checkout ==
    /\ At("Repair", "start")
    /\ IF R.git /\ R.head = 0
       THEN \/ SetRepo([R EXCEPT !.head = Want]) /\ Jump(1) /\ UNCHANGED budget
            \/ Spend("cuts") /\ Fail /\ UNCHANGED disk
       ELSE Jump(1) /\ UNCHANGED <<disk, budget>>
    /\ UNCHANGED <<job, lock, past, reverted>>

------------------------------------------------------------------------------
(* Directories made from an archive: unpacked beside the destination with  *)
(* a marker inside, the old directory removed entry by entry, and the new  *)
(* one moved into its place.                                               *)

Place(t)   == <<t, IF t = "gcc" THEN Want ELSE 0>>
T          == tree[Place(Of)]
SetTree(t) == /\ tree' = [tree EXCEPT ![Place(Of)] = t]
              /\ UNCHANGED <<archive, partial, repo, pair, env, record>>
Complete(t) == \A i \in Pieces : t.files[i] # 0

\* setup_apu_reference looks at the marker before it downloads.
Marked ==
    /\ At("Marked", "start")
    /\ Jump(IF ~proc.update /\ T.mark = Want THEN 3 ELSE 1)
    /\ Frame /\ UNCHANGED disk

\* What each program makes of a directory that is there already.
Install ==          \* install_toolchain.install, prepare_ics55_sram.materialize
    /\ Of \in {"gcc", "sram"}
    /\ IF T.mark = Want THEN Jump(1) ELSE Go("remove")

Install_archive ==  \* setup_apu_reference._install_archive
    /\ Of \in {"libflac", "corpus"}
    /\ CASE T.mark = Want -> Jump(1)
         [] T.mark # Want /\ T.there /\ ~proc.update -> Fail
         [] OTHER -> Go("remove")

Prepare_sky130_sram ==
    /\ Of = "openram"
    /\ IF T.mark # Want THEN Go("remove")
       ELSE IF \A i \in Pieces : T.files[i] = Want THEN Jump(1) ELSE Fail

\* The marker of the ICS55 timing views names the revision of the PDK as well: one
\* with two versions matches no later run.
Marker == IF Of = "lib" /\ proc.rev # Want THEN 0 ELSE Want

Prepare_ics55_liberty ==
    /\ Of = "lib"
    /\ IF T.mark = Marker /\ Marker # 0 /\ Complete(T) THEN Jump(1) ELSE Go("remove")

Unpack ==
    /\ At("Unpack", "start")
    /\ Install \/ Install_archive \/ Prepare_sky130_sram \/ Prepare_ics55_liberty
    /\ Frame /\ UNCHANGED disk

\* shutil.rmtree, in the order the directory lists its entries.  The SRAM views
\* and the cell models of ICS55 lie below the directory of its timing views.
Remove(at) ==
    /\ \/ T.mark # 0 /\ SetTree([T EXCEPT !.mark = 0]) /\ UNCHANGED proc
       \/ \E i \in Pieces : /\ T.files[i] # 0
                            /\ SetTree([T EXCEPT !.files[i] = 0])
                            /\ UNCHANGED proc
       \/ /\ Of = "lib" /\ (tree[<<"sram", 0>>].there \/ pair["cells"].out # 0)
          /\ tree' = [tree EXCEPT ![<<"sram", 0>>] = Nothing]
          /\ pair' = [pair EXCEPT !["cells"] = [out |-> 0, rev |-> 0]]
          /\ UNCHANGED <<archive, partial, repo, env, record, proc>>
       \/ /\ T.mark = 0 /\ \A i \in Pieces : T.files[i] = 0
          /\ Of = "lib" => ~tree[<<"sram", 0>>].there /\ pair["cells"].out = 0
          /\ SetTree(Nothing) /\ proc' = [proc EXCEPT !.at = at]
    /\ Frame /\ UNCHANGED torn

Remove_old == At("Unpack", "remove") /\ Remove("replace")

Replace_tree ==
    /\ At("Unpack", "replace")
    /\ SetTree([there |-> TRUE, mark |-> Marker,
                files |-> [i \in Pieces |-> archive[ArchiveOf(Of)][1]]])
    /\ Jump(1)
    /\ Frame

Validate_notices ==
    /\ At("Validate_notices", "start")
    /\ IF \A t \in {"libflac", "corpus"} : tree[<<t, 0>>].files[1] # 0 THEN Jump(1) ELSE Fail
    /\ Frame /\ UNCHANGED disk

------------------------------------------------------------------------------
(* Directories unpacked in place: FatFs, SERV and the copy of its RTL.     *)

Extract_fatfs ==
    /\ At("Extract_fatfs", "start")
    /\ CASE proc.update /\ T.there -> Go("remove")
         [] ~proc.update /\ T.there -> Jump(1)
         [] OTHER -> Go("extract")
    /\ Frame /\ UNCHANGED disk

Remove_fatfs == At("Extract_fatfs", "remove") /\ Remove("extract")

Extract_serv ==
    /\ At("Extract_serv", "start")
    /\ IF T.there THEN Jump(1) ELSE Go("extract")
    /\ Frame /\ UNCHANGED disk

\* extractall and copytree write one file after the other.
Writes_file(i, v) ==
    /\ T.files[i] = 0
    /\ SetTree([T EXCEPT !.there = TRUE, !.files[i] = v])
    /\ IF \A j \in Pieces \ {i} : T.files[j] # 0 THEN Jump(1) ELSE UNCHANGED <<proc, torn>>
    /\ Frame

Extractall ==
    /\ Running /\ Here.op \in {"Extract_fatfs", "Extract_serv"} /\ proc.at = "extract"
    /\ \E i \in Pieces : Writes_file(i, archive[Of][1])

\* The patched file must be there; patching it again changes nothing.
Patch ==
    /\ Running /\ Here.op \in {"Patch_fatfs", "Patch_serv"}
    /\ IF T.files[1] = 0 THEN Fail /\ UNCHANGED disk
       ELSE SetTree([T EXCEPT !.mark = 1]) /\ Jump(1)
    /\ Frame

Sync_tree ==
    /\ At("Sync_tree", "start")
    /\ CASE T.there /\ T.files = tree[<<"serv", 0>>].files -> Jump(1)
         [] ~(T.there /\ T.files = tree[<<"serv", 0>>].files) /\ T.there -> Go("remove")
         [] OTHER -> Go("copy")
    /\ Frame /\ UNCHANGED disk

Remove_core == At("Sync_tree", "remove") /\ Remove("copy")

Copytree ==
    /\ At("Sync_tree", "copy")
    /\ LET missing == {i \in Pieces : T.files[i] # tree[<<"serv", 0>>].files[i]}
       IN  /\ \E i \in missing :
                SetTree([T EXCEPT !.there = TRUE, !.files[i] = tree[<<"serv", 0>>].files[i]])
           /\ IF Cardinality(missing) = 1 THEN Jump(1) ELSE UNCHANGED <<proc, torn>>
    /\ Frame

Patch_coremark ==
    /\ At("Patch_coremark", "start")
    /\ SetRepo([R EXCEPT !.patched = IF @ = 2 THEN 2 ELSE @ + 1])
    /\ IF R.patched >= 1 THEN Jump(1) ELSE UNCHANGED <<proc, torn>>
    /\ Frame

------------------------------------------------------------------------------
(* The VWW corpus of the NPU: one JPEG and one decoded input per label.    *)
(* write_bytes is not atomic: a file being written is cut (Wrong).         *)

Jpeg == tree[<<"jpeg", 0>>]

Extract_vww_jpegs ==
    /\ At("Extract_vww_jpegs", "start")
    /\ IF proc.update \/ ~Complete(T)
       THEN proc' = [proc EXCEPT !.at = "write", !.tries = 1] /\ UNCHANGED torn
       ELSE Jump(1)
    /\ Frame /\ UNCHANGED disk

\* Input number proc.tries of the corpus, opened and then written whole.
Write_bytes(v) ==
    /\ IF proc.buffer = <<>>
       THEN /\ SetTree([T EXCEPT !.there = TRUE, !.files[proc.tries] = Wrong])
            /\ proc' = [proc EXCEPT !.buffer = <<v>>]
       ELSE /\ SetTree([T EXCEPT !.files[proc.tries] = v])
            /\ proc' = IF proc.tries = 2 THEN Entering(proc, proc.pc + 1)
                       ELSE [proc EXCEPT !.buffer = <<>>, !.tries = @ + 1]
    /\ UNCHANGED torn

Write_jpeg ==
    /\ At("Extract_vww_jpegs", "write")
    /\ Write_bytes(archive["vww"][1])
    /\ Frame

\* An input of the right size is kept, a cut JPEG cannot be decoded.
Decode_vww_bins ==
    /\ At("Decode_vww_bins", "start")
    /\ LET n    == proc.tries + 1
           keep == T.files[n] \notin {0, Wrong}
       IN  CASE keep /\ n < 2 -> proc' = [proc EXCEPT !.tries = n] /\ UNCHANGED torn
             [] keep /\ n = 2 -> Jump(1)
             [] ~keep /\ Jpeg.files[n] = Wrong -> Fail
             [] OTHER -> proc' = [proc EXCEPT !.at = "write", !.tries = n] /\ UNCHANGED torn
    /\ Frame /\ UNCHANGED disk

Write_bin ==
    /\ At("Decode_vww_bins", "write")
    /\ LET v == Jpeg.files[proc.tries]
       IN  /\ IF proc.buffer = <<>>
              THEN /\ SetTree([T EXCEPT !.there = TRUE, !.files[proc.tries] = Wrong])
                   /\ proc' = [proc EXCEPT !.buffer = <<v>>]
              ELSE /\ SetTree([T EXCEPT !.files[proc.tries] = v])
                   /\ proc' = IF proc.tries = 2 THEN Entering(proc, proc.pc + 1)
                              ELSE [proc EXCEPT !.buffer = <<>>, !.at = "start"]
    /\ Frame /\ UNCHANGED torn

------------------------------------------------------------------------------
(* Provenance: P7 notes each revision as it installs the source, the NPU   *)
(* reads them from the lock at the end.                                    *)

Note ==
    /\ At("Note", "start")
    /\ proc' = [Entering(proc, proc.pc + 1) EXCEPT !.notes[Of] = Want]
    /\ Frame /\ UNCHANGED <<disk, torn>>

\* Mutant: the revisions are read from the lock when the record is written.
MutP7_provenance ==
    /\ At("P7_provenance", "start")
    /\ record' = [r \in Repos |-> IF r \in {"tiny", "mfcc"} THEN lock ELSE 0] /\ Jump(1)
    /\ Frame /\ UNCHANGED <<archive, partial, tree, repo, pair, env>>

P7_provenance ==
    /\ At("P7_provenance", "start")
    /\ record' = proc.notes /\ Jump(1)
    /\ Frame /\ UNCHANGED <<archive, partial, tree, repo, pair, env>>

Npu_provenance ==
    /\ At("Npu_provenance", "start")
    /\ record' = [r \in Repos |-> IF r \in {"tiny", "mfcc"} THEN Want ELSE 0] /\ Jump(1)
    /\ Frame /\ UNCHANGED <<archive, partial, tree, repo, pair, env>>

------------------------------------------------------------------------------
(* The generated timing views: the view, then the revision beside it.      *)

SetPair(p) == /\ pair' = [pair EXCEPT ![Of] = p]
              /\ UNCHANGED <<archive, partial, tree, repo, env, record>>

Generate_liberty ==
    /\ At("Generate_liberty", "start")
    /\ IF pair[Of].out # 0 /\ pair[Of].rev = proc.rev THEN Jump(1) /\ UNCHANGED disk
       ELSE SetPair([pair[Of] EXCEPT !.out = repo["pdk"].head]) /\ Go("revision")
    /\ Frame

Prepare_sim_model ==
    /\ At("Prepare_sim_model", "start")
    /\ SetPair([pair[Of] EXCEPT !.out = repo["pdk"].head]) /\ Go("revision")
    /\ Frame

Write_revision ==
    /\ Running /\ Here.op \in {"Generate_liberty", "Prepare_sim_model"} /\ proc.at = "revision"
    /\ SetPair([pair[Of] EXCEPT !.rev = proc.rev]) /\ Jump(1)
    /\ Frame

------------------------------------------------------------------------------
(* The development environment.                                            *)

SetEnv(e) == env' = e /\ UNCHANGED <<archive, partial, tree, repo, pair, record>>

\* Packages installed halfway still import (Wrong) or do not (Broken).
Broken    == Wrong + 1
Imports   == env.packages \notin {0, Broken}
Installed == env.stamp = Want /\ env.python /\ Imports /\ tree[<<"gcc", Want>>].there

Has_environment ==
    /\ At("Has_environment", "start")
    /\ Jump(IF Installed THEN 6 ELSE 1)
    /\ Frame /\ UNCHANGED disk

Create_virtualenv ==
    /\ At("Create_virtualenv", "start")
    /\ IF env.python THEN Jump(1) /\ UNCHANGED disk
       ELSE SetEnv([env EXCEPT !.python = TRUE]) /\ Go("ensurepip")
    /\ Frame

Ensure_pip ==
    /\ At("Create_virtualenv", "ensurepip")
    /\ SetEnv([env EXCEPT !.pip = TRUE]) /\ Jump(1)
    /\ Frame

Pip_install ==
    /\ At("Pip", "start")
    /\ IF env.pip
       THEN \E half \in IF env.packages = Want THEN {Want} ELSE {Wrong, Broken} :
              SetEnv([env EXCEPT !.packages = half]) /\ Go("packages")
       ELSE Fail /\ UNCHANGED disk
    /\ Frame

Pip_ends ==
    /\ At("Pip", "packages")
    /\ \/ SetEnv([env EXCEPT !.packages = Want]) /\ Jump(1) /\ UNCHANGED budget
       \/ Spend("cuts") /\ Fail /\ UNCHANGED disk
    /\ UNCHANGED <<job, lock, past, reverted>>

Write_stamp ==
    /\ At("Write_stamp", "start")
    /\ SetEnv([env EXCEPT !.stamp = Want]) /\ Jump(1)
    /\ Frame

Write_activation ==
    /\ At("Write_activation", "start")
    /\ SetEnv([env EXCEPT !.active = Want]) /\ Jump(1)
    /\ Frame

Check ==
    /\ At("Check", "start")
    /\ IF Installed /\ tree[<<"gcc", Want>>].files[1] # 0 THEN Jump(1) ELSE Fail
    /\ Frame /\ UNCHANGED disk

------------------------------------------------------------------------------
Init ==
    /\ job \in Jobs /\ lock = 1
    /\ proc = [status |-> "idle", pc |-> 1, at |-> "start", want |-> 1, rev |-> 1, update |-> FALSE,
               steady |-> TRUE, buffer |-> <<>>, tries |-> 0, notes |-> [r \in Repos |-> 0]]
    /\ archive = [a \in Archives |-> <<>>] /\ partial = [a \in Archives |-> <<>>]
    /\ tree = [p \in Places |-> Nothing]
    /\ repo = [r \in Repos |-> [git |-> FALSE, head |-> 0, sub |-> 0, patched |-> 0]]
    /\ pair = [p \in Pairs |-> [out |-> 0, rev |-> 0]]
    /\ env = [python |-> FALSE, pip |-> FALSE, packages |-> 0, stamp |-> 0, active |-> 0]
    /\ record = [r \in Repos |-> 0]
    /\ budget = [kills |-> MaxKills, cuts |-> MaxCuts, moves |-> MaxMoves, runs |-> MaxRuns]
    /\ torn = FALSE /\ past = {1} /\ reverted = FALSE

Continue ==
    \/ Download_file \/ Request \/ Range_refused \/ Receive \/ Verify \/ Replace
    \/ Ensure_git_repo \/ Git_init \/ Git_checkout \/ Git_submodule
    \/ Repair_incomplete_checkout
    \/ Marked \/ Unpack \/ Remove_old \/ Replace_tree \/ Validate_notices
    \/ Extract_fatfs \/ Remove_fatfs \/ Extract_serv \/ Extractall \/ Patch
    \/ Sync_tree \/ Remove_core \/ Copytree \/ Patch_coremark
    \/ Extract_vww_jpegs \/ Write_jpeg \/ Decode_vww_bins \/ Write_bin
    \/ Note \/ P7_provenance \/ Npu_provenance
    \/ Generate_liberty \/ Prepare_sim_model \/ Write_revision
    \/ Has_environment \/ Create_virtualenv \/ Ensure_pip \/ Pip_install \/ Pip_ends
    \/ Write_stamp \/ Write_activation \/ Check

Next ==
    \/ Continue \/ Cut \/ Kill
    \/ \E update \in BOOLEAN : Start(update)
    \/ \E v \in Versions : Move_lock(v)

\* A program that runs goes on, and the user starts it again, with --update, for
\* as long as there is something to install.
Spec == Init /\ [][Next]_vars /\ WF_vars(Continue) /\ SF_vars(Start(TRUE))

------------------------------------------------------------------------------
\* Every variable has a value of its type; in particular an archive in place is
\* always the verified bytes of one version of the lock, whatever was cut, killed
\* or resumed on the way (download_file, setup_helpers.py:107).
TypeOK ==
    /\ job \in Jobs /\ lock \in Versions
    /\ proc.status \in {"idle", "running", "ok", "failed"} /\ proc.want \in Versions
    /\ proc.pc \in 1..Len(Program[job]) /\ Len(proc.buffer) <= Size
    /\ archive \in [Archives -> {<<>>} \cup {Whole(v) : v \in Versions}]
    /\ \A a \in Archives : Len(partial[a]) <= Size /\ (a \notin Resume => partial[a] = <<>>)
    /\ tree \in [Places -> [there : BOOLEAN, mark : 0..MaxLock, files : [Pieces -> 0..Wrong]]]
    /\ repo \in [Repos -> [git : BOOLEAN, head : 0..MaxLock, sub : 0..MaxLock, patched : 0..2]]
    /\ pair \in [Pairs -> [out : 0..MaxLock, rev : 0..MaxLock]]
    /\ env \in [python : BOOLEAN, pip : BOOLEAN, packages : 0..Broken,
                stamp : 0..MaxLock, active : 0..MaxLock]
    /\ record \in [Repos -> 0..MaxLock]
    /\ \A p \in Places : ~tree[p].there => tree[p] = Nothing

MarkedTrees == {"gcc", "libflac", "corpus", "lib", "sram", "openram"}

\* A setup program that succeeds leaves every product of the version the lock
\* pins, whole, whatever earlier runs left behind when they were killed or cut,
\* as long as the lock did not move during the run, nor came back to a version it
\* had pinned before after a run that ended early.  (install_toolchain.py:74,
\* setup_apu_reference.py:42, prepare_ics55_liberty.py:46,
\* generate_gf180_liberty.py:55, development_environment.py:130.)
ReadyIsWhole ==
    proc.status = "ok" /\ proc.steady /\ ~reverted =>
        /\ \A t \in MarkedTrees : Used(t) =>
             tree[Place(t)] = [there |-> TRUE, mark |-> Want, files |-> [i \in Pieces |-> Want]]
        /\ \A r \in Repos : Used(r) =>
             repo[r].head = Want /\ (r \in Recursive => repo[r].sub = Want)
        /\ \A p \in Pairs : Used(p) => pair[p] = [out |-> Want, rev |-> Want]
        /\ Used("fatfs") /\ proc.update =>
             \A i \in Pieces : tree[<<"fatfs", 0>>].files[i] = Want
        /\ Used("core") => tree[<<"core", 0>>].files = tree[<<"serv", 0>>].files
        /\ Used("venv") => env.packages = Want
        /\ job = "environment" => env.stamp = Want /\ env.active = Want

\* The P7 provenance names the revision that is checked out, even when the lock
\* moved while the sources were installed one after the other
\* (setup_apu_reference.py:111).
RecordTrue ==
    job = "apu_p7" /\ proc.status = "ok" =>
        \A r \in {"tiny", "mfcc"} : record[r] = repo[r].head

\* What a rerun with --update cannot get past: a checkout without a commit in a
\* program that does not repair it, a checkout its own patch or a submodule left
\* behind made dirty, a partial file with nothing left to ask for, a virtual
\* environment without pip, the SERV sources without the file to patch, and a
\* directory removed in part whose old marker the lock came back to.
Repairs(r) == \E i \in 1..Len(Program[job]) : Program[job][i] = Step("Repair", r)
Wedged ==
    \/ \E r \in Repos : repo[r].git /\ repo[r].head = 0 /\ ~Repairs(r)
    \/ \E r \in Repos : Dirty(repo[r]) /\ (r = "coremark" => repo[r].head # lock)
    \/ \E a \in Resume : Len(partial[a]) = Size
    \/ env.python /\ ~env.pip
    \/ tree[<<"serv", 0>>].there /\ tree[<<"serv", 0>>].files[1] = 0
    \/ \E p \in Places : tree[p].mark = lock /\ ~Complete(tree[p])

\* Setup can be repeated: whatever was killed or cut, started again with --update
\* it succeeds in the end, or one of the states above remains.  The programs that
\* call repair_incomplete_checkout get past an interrupted fetch
\* (setup_hp_linux.py:19, scripts/README.md:180).
Settles == []<>(proc.status = "ok") \/ <>[]Wedged
==============================================================================
