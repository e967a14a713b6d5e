----------------------------- MODULE StageChain -----------------------------
(***************************************************************************)
(* The commercial physical flow (physical/commercial): a chain of stages   *)
(* that Make runs one behind the other.  run_stage.py runs the tool of a   *)
(* stage and leaves a stamp only if it exited with 0 and refreshed what is *)
(* expected of it; prepare_input.py stages the RTL archive, run_checked.py *)
(* and check_outputs.py judge extraction and layout verification,          *)
(* run_pt_scenarios.py runs one timing analysis for each scenario, and     *)
(* clean_stage.py removes a stage and everything behind it.                *)
(*                                                                         *)
(* Anything may be killed between two steps, the archive may be replaced,  *)
(* and Make resumes at the first stage whose stamp is missing or older     *)
(* than the one before it.                                                 *)
(***************************************************************************)
EXTENDS Naturals, Sequences

CONSTANTS Kinds,        \* kind of each stage, in the order of the chain
          Parts,        \* files a stage delivers besides its verdict
          MaxArchives,  \* versions of the RTL archive
          MaxRuns       \* invocations of Make and of clean_stage

Stages == 1..Len(Kinds)

ASSUME ChainAssumption ==
    /\ Kinds \in Seq({"input", "tool", "spef", "calibre", "sta"})
    /\ Kinds # <<>> /\ Kinds[1] = "input"
    /\ \A i \in Stages : i > 1 => Kinds[i] # "input"
    /\ Parts # {} /\ MaxArchives \in Nat \ {0} /\ MaxRuns \in Nat

VARIABLES archive,  \* version of the archive
          disk,     \* per stage and file: archives it derives from, new in this run, clean
          verdict,  \* per stage: the same for verdict.pass
          stamp,    \* per stage: "no", "old" (older than the stamp before it) or "yes"
          proc,     \* the process running
          torn,     \* a clean was killed between a directory and its stamp
          runs

vars == <<archive, disk, verdict, stamp, proc, torn, runs>>

None == [from |-> {}, new |-> FALSE, clean |-> TRUE]
There(f) == f.from # {}
Start(pc, i) == [pc |-> pc, stage |-> i, exit |-> 0, done |-> {}]
Idle == Start("idle", 1)

\* What the tool of stage i reads.
Source(i) == IF i = 1 THEN {archive} ELSE UNION {disk[i - 1][p].from : p \in Parts}
Readable(i) == i = 1 \/ \A p \in Parts : There(disk[i - 1][p])

Go(pc) == proc' = [proc EXCEPT !.pc = pc]
Exit(pc, code) == proc' = [proc EXCEPT !.pc = pc, !.exit = code]
At(pc) == proc.pc = pc
I      == proc.stage
Kind   == Kinds[I]

\* A stamp written now is newer than the one before it and makes the one behind
\* it old.
Behind(i) == IF i < Len(Kinds) /\ stamp[i + 1] = "yes"
             THEN [stamp EXCEPT ![i + 1] = "old"] ELSE stamp

-----------------------------------------------------------------------------
(* Make.                                                                   *)

\* The first stage that is not up to date, or the end of the chain.
ToDo == {i \in Stages : stamp[i] # "yes"}

Signoff ==
    /\ At("idle") /\ runs < MaxRuns /\ runs' = runs + 1
    /\ proc' = Start("next", 1)
    /\ UNCHANGED <<archive, disk, verdict, stamp, torn>>

Next_stage ==
    /\ At("next")
    /\ \/ ToDo = {} /\ proc' = Start("signed", 1)
       \/ \E i \in ToDo : /\ \A k \in ToDo : i <= k
                          /\ proc' = Start("unstamp", i)
    /\ UNCHANGED <<archive, disk, verdict, stamp, torn, runs>>

Leave == At("signed") /\ proc' = Idle /\ UNCHANGED <<archive, disk, verdict, stamp, torn, runs>>

-----------------------------------------------------------------------------
(* run_stage.py around the command of the stage.                           *)

\* The stamp goes first; from here on files count as refreshed.
Unstamp ==
    /\ At("unstamp")
    /\ stamp' = [stamp EXCEPT ![I] = "no"]
    /\ disk' = [disk EXCEPT ![I] = [p \in Parts |-> [@[p] EXCEPT !.new = FALSE]]]
    /\ verdict' = [verdict EXCEPT ![I].new = FALSE]
    /\ Go(CASE Kind = "input" -> "wipe" [] Kind = "sta" -> "scenario" [] OTHER -> "tool")
    /\ UNCHANGED <<archive, torn, runs>>

\* What main expects of each kind of stage: the files and the verdict, or the
\* verdict alone.
Expected == IF Kind \in {"input", "tool"} THEN {disk[I][p] : p \in Parts} \cup {verdict[I]}
            ELSE {verdict[I]}

\* Mutant: outputs of an earlier attempt are accepted.
MutJudgeStale ==
    /\ At("judge")
    /\ IF proc.exit = 0 /\ \A f \in Expected : There(f) THEN Go("stamp") ELSE proc' = Idle
    /\ UNCHANGED <<archive, disk, verdict, stamp, torn, runs>>

Judge ==
    /\ At("judge")
    /\ LET passed == proc.exit = 0 /\ \A f \in Expected : There(f) /\ f.new
       IN IF passed THEN Go("stamp") ELSE proc' = Idle
    /\ UNCHANGED <<archive, disk, verdict, stamp, torn, runs>>

Stamp ==
    /\ At("stamp")
    /\ stamp' = [Behind(I) EXCEPT ![I] = "yes"]
    /\ Go("next")
    /\ UNCHANGED <<archive, disk, verdict, torn, runs>>

-----------------------------------------------------------------------------
(* The commands.                                                           *)

\* prepare_input.py: the directory is emptied, the archive unpacked and its
\* contents checked, then the manifest is written.
Wipe ==
    /\ At("wipe")
    /\ disk' = [disk EXCEPT ![I] = [p \in Parts |-> None]]
    /\ Go("unpack")
    /\ UNCHANGED <<archive, verdict, stamp, torn, runs>>

Unpack ==
    /\ At("unpack")
    /\ \/ /\ disk' = [disk EXCEPT ![I] = [p \in Parts |->
                    [from |-> {archive}, new |-> TRUE, clean |-> TRUE]]]
          /\ verdict' = [verdict EXCEPT ![I] =
                    [from |-> {archive}, new |-> TRUE, clean |-> TRUE]]
          /\ Go("judge")
       \/ \E W \in SUBSET Parts :
            /\ disk' = [disk EXCEPT ![I] = [p \in Parts |-> IF p \in W
                    THEN [from |-> {archive}, new |-> TRUE, clean |-> TRUE] ELSE @[p]]]
            /\ Exit("judge", 2) /\ UNCHANGED verdict
    /\ UNCHANGED <<archive, stamp, torn, runs>>

\* A tool leaves any of its files refreshed, clean or not, and exits with 0 or
\* not; it cannot exit with 0 over an input that is missing.
Writes(W, dirty) ==
    [p \in Parts |-> IF p \in W THEN [from |-> Source(I), new |-> TRUE, clean |-> p \notin dirty]
                     ELSE disk[I][p]]

\* Synthesis, formal check, place and route: the tool writes its own verdict.
Tool ==
    /\ At("tool") /\ Kind = "tool"
    /\ \E W \in SUBSET Parts, v \in BOOLEAN, exit \in {0, 1} :
        /\ ~Readable(I) => exit = 1 /\ W = {} /\ ~v
        /\ disk' = [disk EXCEPT ![I] = Writes(W, {})]
        /\ verdict' = IF v THEN [verdict EXCEPT ![I] =
                [from |-> Source(I), new |-> TRUE, clean |-> TRUE]] ELSE verdict
        /\ Exit("judge", exit)
    /\ UNCHANGED <<archive, stamp, torn, runs>>

\* run_checked.py: the verdict goes, the tool runs, a failure ends it.
Run_checked ==
    /\ At("tool") /\ Kind \in {"spef", "calibre"}
    /\ verdict' = [verdict EXCEPT ![I] = None]
    /\ Go("checked")
    /\ UNCHANGED <<archive, disk, stamp, torn, runs>>

Checked ==
    /\ At("checked")
    /\ \E W \in SUBSET Parts, exit \in {0, 1} : \E dirty \in SUBSET W :
        /\ ~Readable(I) => exit = 1 /\ W = {}
        /\ Kind = "spef" => dirty = {}
        /\ disk' = [disk EXCEPT ![I] = Writes(W, dirty)]
        /\ Exit(IF exit = 0 THEN "check" ELSE "judge", exit)
    /\ UNCHANGED <<archive, verdict, stamp, torn, runs>>

\* Mutant: one clean report is enough.
MutApply_check ==
    LET found == {p \in Parts : There(disk[I][p])} IN
    /\ IF Kind = "spef" THEN found = Parts ELSE \E p \in found : disk[I][p].clean
    /\ \A p \in found : disk[I][p].new

\* apply_check: every corner for an extraction; for Calibre some report, all of
\* those found without results; and none that this run did not write.
Apply_check ==
    LET found == {p \in Parts : There(disk[I][p])} IN
    /\ IF Kind = "spef" THEN found = Parts
       ELSE found # {} /\ \A p \in found : disk[I][p].clean
    /\ \A p \in found : disk[I][p].new

\* What the files of the stage derive from.
Delivered(i) == UNION {disk[i][p].from : p \in Parts}

Write_verdict == verdict' =
    [verdict EXCEPT ![I] = [from |-> Delivered(I), new |-> TRUE, clean |-> TRUE]]

Check ==
    /\ At("check")
    /\ \/ Apply_check /\ Write_verdict /\ Go("judge")
       \/ ~Apply_check /\ UNCHANGED verdict /\ Exit("judge", 2)
    /\ UNCHANGED <<archive, disk, stamp, torn, runs>>

\* run_pt_scenarios.py: the verdict goes; for each scenario its marker goes, the
\* analysis runs and must write it; the first that fails ends the run.
Scenario ==
    /\ At("scenario")
    /\ verdict' = IF proc.done = {} THEN [verdict EXCEPT ![I] = None] ELSE verdict
    /\ \E p \in Parts \ proc.done :
        /\ disk' = [disk EXCEPT ![I][p] = None]
        /\ proc' = [proc EXCEPT !.pc = "analysis", !.done = @ \cup {p}]
    /\ UNCHANGED <<archive, stamp, torn, runs>>

Analysis ==
    /\ At("analysis")
    /\ \E exit \in {0, 1}, marker \in BOOLEAN, p \in proc.done :
        /\ ~There(disk[I][p])
        /\ ~Readable(I) => exit = 1 /\ ~marker
        /\ disk' = [disk EXCEPT ![I] = Writes(IF marker THEN {p} ELSE {}, {})]
        /\ CASE exit # 0            -> Exit("judge", exit)
             [] exit = 0 /\ ~marker -> Exit("judge", 2)
             [] exit = 0 /\ marker  -> Exit(IF proc.done = Parts THEN "summary" ELSE "scenario", 0)
    /\ UNCHANGED <<archive, verdict, stamp, torn, runs>>

Summary ==
    /\ At("summary") /\ Write_verdict /\ Go("judge")
    /\ UNCHANGED <<archive, disk, stamp, torn, runs>>

-----------------------------------------------------------------------------
(* clean_stage.py, kills, a new archive.                                   *)

Clean(i) ==
    /\ At("idle") /\ runs < MaxRuns /\ runs' = runs + 1
    /\ proc' = Start("rmtree", i)
    /\ UNCHANGED <<archive, disk, verdict, stamp, torn>>

Clean_directory ==
    /\ At("rmtree")
    /\ disk' = [disk EXCEPT ![I] = [p \in Parts |-> None]]
    /\ verdict' = [verdict EXCEPT ![I] = None]
    /\ Go("rmstamp")
    /\ UNCHANGED <<archive, stamp, torn, runs>>

Clean_stamp ==
    /\ At("rmstamp")
    /\ stamp' = [stamp EXCEPT ![I] = "no"]
    /\ proc' = IF I = Len(Kinds) THEN Idle ELSE Start("rmtree", I + 1)
    /\ UNCHANGED <<archive, disk, verdict, torn, runs>>

\* A kill; inside rmtree some of the files are gone.
Kill ==
    /\ proc.pc \notin {"idle", "signed"}
    /\ torn' = (torn \/ (proc.pc \in {"rmtree", "rmstamp"} /\ stamp[I] # "no"))
    /\ proc' = Idle
    /\ \E W \in SUBSET Parts :
        /\ ~At("rmtree") => W = {}
        /\ disk' = [disk EXCEPT ![I] = [p \in Parts |-> IF p \in W THEN None ELSE @[p]]]
    /\ UNCHANGED <<archive, verdict, stamp, runs>>

\* The archive is replaced, but not while it is being unpacked.
Replace ==
    /\ archive < MaxArchives
    /\ ~(I = 1 /\ proc.pc \in {"unstamp", "wipe", "unpack", "judge", "stamp"})
    /\ archive' = archive + 1
    /\ stamp' = IF stamp[1] = "yes" THEN [stamp EXCEPT ![1] = "old"] ELSE stamp
    /\ UNCHANGED <<disk, verdict, proc, torn, runs>>

Init ==
    /\ archive = 1
    /\ disk = [i \in Stages |-> [p \in Parts |-> None]]
    /\ verdict = [i \in Stages |-> None]
    /\ stamp = [i \in Stages |-> "no"]
    /\ proc = Idle /\ torn = FALSE /\ runs = 0

Next ==
    \/ Signoff \/ Next_stage \/ Leave \/ Unstamp \/ Judge \/ Stamp
    \/ Wipe \/ Unpack \/ Tool \/ Run_checked \/ Checked \/ Check
    \/ Scenario \/ Analysis \/ Summary
    \/ \E i \in Stages : Clean(i)
    \/ Clean_directory \/ Clean_stamp \/ Kill \/ Replace

Spec == Init /\ [][Next]_vars

-----------------------------------------------------------------------------
Work == {"wipe", "unpack", "tool", "checked", "check", "scenario", "analysis", "summary",
         "judge", "stamp"}
Steps == Work \cup {"idle", "next", "signed", "unstamp", "rmtree", "rmstamp"}
Procs == [pc : Steps, stage : Stages, exit : 0..2, done : SUBSET Parts]
Files == [from : SUBSET (1..archive), new : BOOLEAN, clean : BOOLEAN]

\* The states are what the definitions above say; no file derives from an
\* archive that was never there.
TypeOK ==
    /\ archive \in 1..MaxArchives /\ runs \in 0..MaxRuns /\ torn \in BOOLEAN
    /\ stamp \in [Stages -> {"no", "old", "yes"}]
    /\ disk \in [Stages -> [Parts -> Files]] /\ verdict \in [Stages -> Files]
    /\ proc \in Procs

\* The stages whose stamp, and every stamp before it, is up to date: Make will
\* not run them again.
Settled == {i \in Stages : \A k \in 1..i : stamp[k] = "yes"}

\* Stages that Make will not run again were all made from the archive there is,
\* whatever was killed, replaced or cleaned before: a stamp is never believed
\* over files of an earlier attempt.
OneArchive ==
    ~torn => \A i \in Settled :
        (At("rmstamp") /\ i = I) \/ Delivered(i) = {archive}

\* The verdict of a settled stage is about the files that lie beside it.
VerdictIsOwn ==
    ~torn => \A i \in Settled :
        \/ At("rmstamp") /\ i = I
        \/ /\ There(verdict[i])
           /\ Kinds[i] \in {"spef", "calibre", "sta"} =>
                verdict[i].from = Delivered(i) /\ \A p \in Parts :
                    There(disk[i][p]) => disk[i][p].clean
=============================================================================
