-------------------------- MODULE StageChain_proofs --------------------------
(***************************************************************************)
(* Proofs about the commercial stage chain, for a chain of any length,     *)
(* any number of files per stage, of archives and of runs.                 *)
(***************************************************************************)
EXTENDS StageChain, TLAPS

-----------------------------------------------------------------------------
(* The inductive invariant.                                                *)

Checkers == {"spef", "calibre", "sta"}
Working == proc.pc \in Work

\* The step that runs belongs to the kind of its stage.
KindInv ==
    /\ proc.pc \in {"wipe", "unpack"} => I = 1
    /\ At("tool") => Kind \in {"tool", "spef", "calibre"}
    /\ proc.pc \in {"checked", "check"} => Kind \in {"spef", "calibre"}
    /\ proc.pc \in {"scenario", "analysis", "summary"} => Kind = "sta"

\* Make never works on a stage that it holds up to date.
WorkInv ==
    /\ Working \/ At("unstamp") => stamp[I] # "yes"
    /\ At("unstamp") => proc.done = {}

\* What a stage has written behind settled stages is made from the archive, and
\* only layout verification leaves results in it.
FreshInv ==
    Working => \A p \in Parts : disk[I][p].new =>
        /\ ~torn /\ (I = 1 \/ I - 1 \in Settled) => disk[I][p].from = {archive}
        /\ Kind # "calibre" => disk[I][p].clean

Fine(p) == There(disk[I][p]) /\ disk[I][p].new /\ disk[I][p].clean

\* A verdict counts as refreshed only once it was written behind the check, over
\* files of this run.
JudgedInv ==
    Working /\ Kind \in Checkers /\ verdict[I].new =>
        /\ proc.pc \in {"judge", "stamp"}
        /\ verdict[I].from = Delivered(I)
        /\ \E p \in Parts : Fine(p)
        /\ \A p \in Parts : There(disk[I][p]) => Fine(p)

\* The scenarios done so far have their markers, but for the one that runs.
StaInv ==
    /\ At("scenario") => \A p \in proc.done : Fine(p)
    /\ At("analysis") => \E q \in proc.done :
            ~There(disk[I][q]) /\ \A p \in proc.done \ {q} : Fine(p)
    /\ At("summary") => \A p \in Parts : Fine(p)

StampInv == At("stamp") => \A f \in Expected : There(f) /\ f.new

ChainInv ==
    /\ TypeOK /\ KindInv /\ WorkInv /\ FreshInv /\ JudgedInv /\ StaInv /\ StampInv
    /\ OneArchive /\ VerdictIsOwn

-----------------------------------------------------------------------------
(* Lemmas.                                                                 *)

\* The chain begins with the input stage, and no other stage is of that kind.
LEMMA ChainShape ==
    /\ 1 \in Stages /\ Len(Kinds) \in Nat
    /\ \A i \in Stages : /\ Kinds[i] \in {"input", "tool", "spef", "calibre", "sta"}
                         /\ i \in Nat \ {0} /\ (Kinds[i] = "input" <=> i = 1)
                         /\ (i # 1 => i - 1 \in Stages)
BY ChainAssumption DEF Stages

\* A step keeps what is known of settled stages when it settles none and changes
\* none, but for the one whose directory clean_stage has just removed.
LEMMA OffSettled ==
    ASSUME OneArchive, VerdictIsOwn, archive' = archive,
           ~torn' => /\ ~torn /\ Settled' \subseteq Settled
                     /\ \A i \in Settled' :
                          \/ disk'[i] = disk[i] /\ verdict'[i] = verdict[i] /\ ~(At("rmstamp") /\ i = I)
                          \/ At("rmstamp")' /\ i = I'
    PROVE  OneArchive' /\ VerdictIsOwn'
<1> SUFFICES ASSUME ~torn', NEW i \in Settled', ~(At("rmstamp")' /\ i = I')
             PROVE  /\ Delivered(i)' = {archive'}
                    /\ There(verdict[i])'
                    /\ Kinds[i] \in {"spef", "calibre", "sta"} =>
                         /\ verdict'[i].from = Delivered(i)'
                         /\ \A p \in Parts : There(disk[i][p])' => disk'[i][p].clean
  BY DEF OneArchive, VerdictIsOwn
<1>1. disk'[i] = disk[i] /\ verdict'[i] = verdict[i] /\ i \in Settled /\ ~(At("rmstamp") /\ i = I)
  OBVIOUS
<1>2. Delivered(i)' = Delivered(i)
  BY <1>1 DEF Delivered
<1>3. /\ Delivered(i) = {archive} /\ There(verdict[i])
      /\ Kinds[i] \in {"spef", "calibre", "sta"} =>
            /\ verdict[i].from = Delivered(i)
            /\ \A p \in Parts : There(disk[i][p]) => disk[i][p].clean
  BY <1>1 DEF OneArchive, VerdictIsOwn
<1> QED BY <1>1, <1>2, <1>3 DEF There

\* No settled stage is worked on.
LEMMA SettledStamp ==
    \A i \in Settled : i \in Stages /\ stamp[i] = "yes"
BY ChainShape DEF Settled

\* What a stage behind settled stages reads is made from the archive.
LEMMA SourceIsArchive ==
    ASSUME TypeOK, OneArchive, ~torn, ~At("rmstamp"), I = 1 \/ I - 1 \in Settled
    PROVE  Source(I) = {archive}
BY ChainShape DEF OneArchive, Source, Delivered, TypeOK

\* A tool that finds its inputs writes files that derive from something.
LEMMA SourceThere ==
    ASSUME TypeOK, Readable(I)
    PROVE  Source(I) # {} /\ Source(I) \in SUBSET (1..archive)
<1>1. CASE I = 1
  BY <1>1 DEF Source, TypeOK
<1>2. CASE I # 1
  <2>1. I - 1 \in Stages /\ \A p \in Parts : disk[I - 1][p].from \in SUBSET (1..archive)
    BY <1>2, ChainShape DEF TypeOK, I, Files, Procs
  <2>2. PICK p \in Parts : TRUE
    BY ChainAssumption
  <2>3. disk[I - 1][p].from # {} /\ disk[I - 1][p].from \subseteq Source(I)
    BY <1>2, <2>2 DEF Readable, There, Source
  <2>4. Source(I) = UNION {disk[I - 1][q].from : q \in Parts}
    BY <1>2 DEF Source
  <2> QED BY <2>1, <2>3, <2>4
<1> QED BY <1>1, <1>2

-----------------------------------------------------------------------------
(* Type correctness.                                                       *)

LEMMA NoneIsFile == ASSUME archive \in Nat PROVE None \in Files
BY DEF None, Files

\* What the ways to go on make of the process.
LEMMA GoOn ==
    ASSUME proc \in Procs, NEW q \in Steps, NEW e \in 0..2, Go(q) \/ Exit(q, e)
    PROVE  /\ proc' \in Procs /\ proc'.pc = q /\ I' = I /\ proc'.done = proc.done
           /\ Exit(q, e) => proc'.exit = e
           /\ Go(q) => proc'.exit = proc.exit
BY DEF Go, Exit, Procs, I

LEMMA Begin ==
    ASSUME NEW q \in Steps, NEW i \in Stages
    PROVE  /\ Start(q, i) \in Procs /\ Start(q, i).pc = q /\ Start(q, i).stage = i
           /\ Start(q, i).done = {}
BY DEF Start, Procs

LEMMA OldFile ==
    ASSUME NEW f \in Files
    PROVE  /\ [f EXCEPT !.new = FALSE] \in Files
           /\ [f EXCEPT !.new = FALSE].new = FALSE
           /\ [f EXCEPT !.new = FALSE].from = f.from
           /\ [f EXCEPT !.new = FALSE].clean = f.clean
BY DEF Files

LEMMA Stops == Idle \in Procs /\ Idle.pc = "idle" /\ Idle.stage = 1
BY ChainShape DEF Idle, Start, Procs, Steps

\* Type correctness of a step.
LEMMA TypeStep == TypeOK /\ [Next]_vars => TypeOK'
<1> SUFFICES ASSUME TypeOK, [Next]_vars PROVE TypeOK'
  OBVIOUS
<1> USE ChainAssumption, ChainShape
<1>f. archive' = archive => Files' = Files
  BY DEF Files
<1>n. /\ None \in Files /\ archive \in Nat
      /\ [from |-> {archive}, new |-> TRUE, clean |-> TRUE] \in Files
  BY NoneIsFile DEF Files, TypeOK
<1>e. [p \in Parts |-> None] \in [Parts -> Files]
  BY <1>n
<1>i. I \in Stages /\ proc \in Procs /\ I \in Nat
  BY DEF TypeOK, I, Procs
<1>s. ASSUME NEW S \in [Parts -> Files], disk' = [disk EXCEPT ![I] = S], archive' = archive
      PROVE  disk' \in [Stages -> [Parts -> Files']]
  BY <1>s, <1>f DEF TypeOK
<1>v. ASSUME NEW f \in Files, verdict' = [verdict EXCEPT ![I] = f], archive' = archive
      PROVE  verdict' \in [Stages -> Files']
  BY <1>v, <1>f DEF TypeOK
<1>u. ASSUME disk' = disk, archive' = archive PROVE disk' \in [Stages -> [Parts -> Files']]
  BY <1>u, <1>f DEF TypeOK
<1>x. ASSUME verdict' = verdict, archive' = archive PROVE verdict' \in [Stages -> Files']
  BY <1>x, <1>f DEF TypeOK
<1>1. CASE Signoff
  BY <1>1, <1>u, <1>x DEF Signoff, TypeOK, Steps, Start, Procs
<1>2. CASE Next_stage
  <2>1. proc' \in Procs
    BY <1>2 DEF Next_stage, ToDo, Steps, Start, Procs
  <2> QED BY <1>2, <2>1, <1>u, <1>x DEF Next_stage, TypeOK
<1>3. CASE Leave
  BY <1>3, <1>u, <1>x, Stops DEF Leave, TypeOK
<1>4. CASE Unstamp
  <2>1. [p \in Parts |-> [disk[I][p] EXCEPT !.new = FALSE]] \in [Parts -> Files]
    BY <1>i, OldFile DEF TypeOK
  <2>2. [verdict[I] EXCEPT !.new = FALSE] \in Files
    BY <1>i, OldFile DEF TypeOK
  <2>3. PICK q \in Steps : Go(q)
    BY <1>4 DEF Unstamp, Steps, Work
  <2>4. proc' \in Procs
    BY <2>3, <1>i, GoOn
  <2>5. disk' \in [Stages -> [Parts -> Files']] /\ verdict' \in [Stages -> Files']
    BY <1>4, <2>1, <2>2, <1>s, <1>v DEF Unstamp
  <2> QED BY <1>4, <2>4, <2>5, <1>i DEF Unstamp, TypeOK
<1>5. CASE Judge
  <2>1. proc' \in Procs
    BY <1>5, <1>i, GoOn, Stops DEF Judge, Steps, Work
  <2> QED BY <1>5, <2>1, <1>u, <1>x DEF Judge, TypeOK
<1>6. CASE Stamp
  <2>1. proc' \in Procs
    BY <1>6, <1>i, GoOn DEF Stamp, Steps
  <2> QED BY <1>6, <2>1, <1>i, <1>u, <1>x DEF Stamp, Behind, TypeOK
<1>7. CASE Wipe
  <2>1. proc' \in Procs
    BY <1>7, <1>i, GoOn DEF Wipe, Steps, Work
  <2>2. disk' \in [Stages -> [Parts -> Files']]
    BY <1>7, <1>e, <1>s DEF Wipe
  <2> QED BY <1>7, <2>1, <2>2, <1>x DEF Wipe, TypeOK
<1>8. CASE Unpack
  <2>1. proc' \in Procs
    BY <1>8, <1>i, GoOn DEF Unpack, Steps, Work
  <2>2. PICK S \in [Parts -> Files] : disk' = [disk EXCEPT ![I] = S]
    <3>1. disk[I] \in [Parts -> Files]
      BY <1>i DEF TypeOK
    <3> QED BY <1>8, <1>n, <3>1 DEF Unpack
  <2>3. disk' \in [Stages -> [Parts -> Files']]
    BY <1>8, <2>2, <1>s DEF Unpack
  <2>4. verdict' \in [Stages -> Files']
    BY <1>8, <1>n, <1>x, <1>v DEF Unpack
  <2> QED BY <1>8, <2>1, <2>3, <2>4 DEF Unpack, TypeOK
<1>w. ASSUME NEW W \in SUBSET Parts, NEW dirty, ~Readable(I) => W = {}
      PROVE  Writes(W, dirty) \in [Parts -> Files]
  <2>0. disk[I] \in [Parts -> Files]
    BY <1>i DEF TypeOK
  <2>1. CASE Readable(I)
    <3>1. \A p : [from |-> Source(I), new |-> TRUE, clean |-> p \notin dirty] \in Files
      BY <2>1, SourceThere DEF Files
    <3> QED BY <2>0, <3>1 DEF Writes
  <2>2. CASE W = {}
    BY <2>0, <2>2 DEF Writes
  <2> QED BY <2>1, <2>2, <1>w
<1>9. CASE Tool
  <2> PICK W \in SUBSET Parts, v \in BOOLEAN, exit \in {0, 1} :
        /\ ~Readable(I) => exit = 1 /\ W = {} /\ ~v
        /\ disk' = [disk EXCEPT ![I] = Writes(W, {})]
        /\ verdict' = IF v THEN [verdict EXCEPT ![I] =
                [from |-> Source(I), new |-> TRUE, clean |-> TRUE]] ELSE verdict
        /\ Exit("judge", exit)
    BY <1>9 DEF Tool
  <2>1. disk' \in [Stages -> [Parts -> Files']]
    BY <1>9, <1>w, <1>s DEF Tool
  <2>2. v => [from |-> Source(I), new |-> TRUE, clean |-> TRUE] \in Files
    BY SourceThere DEF Files
  <2>3. verdict' \in [Stages -> Files']
    BY <1>9, <2>2, <1>x, <1>v DEF Tool
  <2>4. proc' \in Procs
    BY <1>i, GoOn DEF Steps, Work
  <2> QED BY <1>9, <2>1, <2>3, <2>4 DEF Tool, TypeOK
<1>10. CASE Run_checked
  <2>1. proc' \in Procs
    BY <1>10, <1>i, GoOn DEF Run_checked, Steps, Work
  <2> QED BY <1>10, <2>1, <1>n, <1>u, <1>v DEF Run_checked, TypeOK
<1>11. CASE Checked
  <2> PICK W \in SUBSET Parts, exit \in {0, 1} : \E dirty \in SUBSET W :
        /\ ~Readable(I) => exit = 1 /\ W = {}
        /\ disk' = [disk EXCEPT ![I] = Writes(W, dirty)]
        /\ Exit(IF exit = 0 THEN "check" ELSE "judge", exit)
    BY <1>11 DEF Checked
  <2>1. proc' \in Procs
    BY <1>i, GoOn DEF Steps, Work
  <2>2. disk' \in [Stages -> [Parts -> Files']]
    BY <1>11, <1>w, <1>s DEF Checked
  <2> QED BY <1>11, <2>1, <2>2, <1>x DEF Checked, TypeOK
<1>12. ASSUME Write_verdict, archive' = archive PROVE verdict' \in [Stages -> Files']
  <2>1. Delivered(I) \in SUBSET (1..archive)
    BY <1>i DEF Delivered, Files, TypeOK
  <2>2. [from |-> Delivered(I), new |-> TRUE, clean |-> TRUE] \in Files
    BY <2>1 DEF Files
  <2> QED BY <1>12, <2>2, <1>v DEF Write_verdict
<1>13. CASE Check
  <2>1. proc' \in Procs
    BY <1>13, <1>i, GoOn DEF Check, Steps, Work
  <2> QED BY <1>13, <2>1, <1>12, <1>u, <1>x DEF Check, TypeOK
<1>14. CASE Scenario
  <2> PICK p \in Parts \ proc.done :
        /\ disk' = [disk EXCEPT ![I][p] = None]
        /\ proc' = [proc EXCEPT !.pc = "analysis", !.done = @ \cup {p}]
    BY <1>14 DEF Scenario
  <2>1. proc' \in Procs
    BY <1>i DEF Procs, Steps, Work
  <2>2. disk' \in [Stages -> [Parts -> Files']]
    BY <1>14, <1>n, <1>f, <1>i DEF Scenario, TypeOK
  <2>3. verdict' \in [Stages -> Files']
    BY <1>14, <1>n, <1>x, <1>v DEF Scenario
  <2> QED BY <1>14, <2>1, <2>2, <2>3 DEF Scenario, TypeOK
<1>15. CASE Analysis
  <2> PICK exit \in {0, 1}, marker \in BOOLEAN, p \in proc.done :
        /\ ~Readable(I) => exit = 1 /\ ~marker
        /\ disk' = [disk EXCEPT ![I] = Writes(IF marker THEN {p} ELSE {}, {})]
        /\ CASE exit # 0            -> Exit("judge", exit)
             [] exit = 0 /\ ~marker -> Exit("judge", 2)
             [] exit = 0 /\ marker  -> Exit(IF proc.done = Parts THEN "summary" ELSE "scenario", 0)
    BY <1>15 DEF Analysis
  <2>0. p \in Parts
    BY <1>i DEF Procs
  <2>1. disk' \in [Stages -> [Parts -> Files']]
    <3>1. CASE marker
      BY <1>15, <2>0, <3>1, <1>w, <1>s DEF Analysis
    <3>2. CASE ~marker
      BY <1>15, <3>2, <1>w, <1>s DEF Analysis
    <3> QED BY <3>1, <3>2
  <2>2. Exit("judge", exit) \/ Exit("judge", 2) \/ Exit("summary", 0) \/ Exit("scenario", 0)
    OBVIOUS
  <2>3. proc' \in Procs
    BY <2>2, <1>i, GoOn DEF Steps, Work
  <2> QED BY <1>15, <2>1, <2>3, <1>x DEF Analysis, TypeOK
<1>16. CASE Summary
  <2>1. proc' \in Procs
    BY <1>16, <1>i, GoOn DEF Summary, Steps, Work
  <2> QED BY <1>16, <2>1, <1>12, <1>u DEF Summary, TypeOK
<1>17. CASE \E i \in Stages : Clean(i)
  BY <1>17, <1>u, <1>x DEF Clean, TypeOK, Steps, Start, Procs
<1>18. CASE Clean_directory
  <2>1. proc' \in Procs
    BY <1>18, <1>i, GoOn DEF Clean_directory, Steps
  <2>2. disk' \in [Stages -> [Parts -> Files']] /\ verdict' \in [Stages -> Files']
    BY <1>18, <1>e, <1>n, <1>s, <1>v DEF Clean_directory
  <2> QED BY <1>18, <2>1, <2>2 DEF Clean_directory, TypeOK
<1>19. CASE Clean_stamp
  <2>1. I # Len(Kinds) => I + 1 \in Stages
    BY <1>i DEF Stages
  <2>2. proc' \in Procs
    BY <1>19, <2>1, Stops DEF Clean_stamp, Steps, Start, Procs
  <2> QED BY <1>19, <2>2, <1>i, <1>u, <1>x DEF Clean_stamp, TypeOK
<1>20. CASE Kill
  <2>1. disk[I] \in [Parts -> Files]
    BY <1>i DEF TypeOK
  <2>2. PICK S \in [Parts -> Files] : disk' = [disk EXCEPT ![I] = S]
    BY <1>20, <1>n, <2>1 DEF Kill
  <2>3. disk' \in [Stages -> [Parts -> Files']]
    BY <1>20, <2>2, <1>s DEF Kill
  <2>4. torn' \in BOOLEAN
    BY <1>20 DEF Kill, TypeOK
  <2> QED BY <1>20, <2>3, <2>4, <1>x, Stops DEF Kill, TypeOK
<1>21. CASE Replace
  <2>1. Files \subseteq Files'
    BY <1>21, <1>n DEF Replace, Files
  <2> QED BY <1>21, <2>1 DEF Replace, TypeOK
<1>22. CASE UNCHANGED vars
  BY <1>22, <1>f DEF vars, TypeOK
<1> QED
  BY <1>1, <1>2, <1>3, <1>4, <1>5, <1>6, <1>7, <1>8, <1>9, <1>10, <1>11, <1>13, <1>14, <1>15,
     <1>16, <1>17, <1>18, <1>19, <1>20, <1>21, <1>22 DEF Next

-----------------------------------------------------------------------------
(* The invariant of the chain is kept.                                     *)

\* Outside run_stage.py there is nothing to keep of the stage.
LEMMA Halted ==
    ASSUME proc'.pc \notin Work
    PROVE  KindInv' /\ FreshInv' /\ JudgedInv' /\ StaInv' /\ StampInv'
BY DEF KindInv, FreshInv, JudgedInv, StaInv, StampInv, Working, Work, At

LEMMA ChainStep == ChainInv /\ [Next]_vars => ChainInv'
<1> SUFFICES ASSUME ChainInv, [Next]_vars PROVE ChainInv'
  OBVIOUS
<1>t. TypeOK /\ TypeOK'
  BY TypeStep DEF ChainInv
<1>i. I \in Stages /\ proc \in Procs /\ I \in Nat /\ disk[I] \in [Parts -> Files]
  BY <1>t, ChainShape DEF TypeOK, I, Procs
<1>o. OneArchive /\ VerdictIsOwn
  BY DEF ChainInv
<1>a. ASSUME UNCHANGED <<archive, stamp, torn>>, ~At("rmstamp"),
             \A i \in Settled : disk'[i] = disk[i] /\ verdict'[i] = verdict[i]
      PROVE  OneArchive' /\ VerdictIsOwn' /\ Settled' = Settled
  <2>1. Settled' = Settled
    BY <1>a DEF Settled
  <2> QED BY <1>a, <1>o, <2>1, OffSettled
<1>1. CASE Signoff
  <2>1. proc'.pc = "next" /\ At("idle")
    BY <1>1 DEF Signoff, Start
  <2>2. OneArchive' /\ VerdictIsOwn'
    BY <1>1, <2>1, <1>a DEF Signoff, At
  <2> QED BY <1>t, <2>1, <2>2, Halted DEF ChainInv, WorkInv, Working, Work, At
<1>2. CASE Next_stage
  <2>1. \/ proc'.pc = "signed"
        \/ proc'.pc = "unstamp" /\ stamp'[I'] # "yes" /\ proc'.done = {}
    BY <1>2 DEF Next_stage, Start, I, ToDo
  <2>2. OneArchive' /\ VerdictIsOwn'
    BY <1>2, <1>a DEF Next_stage, At
  <2> QED BY <1>t, <2>1, <2>2, Halted DEF ChainInv, WorkInv, Working, Work, At
<1>3. CASE Leave
  <2>1. proc'.pc = "idle"
    BY <1>3, Stops DEF Leave
  <2>2. OneArchive' /\ VerdictIsOwn'
    BY <1>3, <1>a DEF Leave, At
  <2> QED BY <1>t, <2>1, <2>2, Halted DEF ChainInv, WorkInv, Working, Work, At
<1>4. CASE Unstamp
  <2>1. PICK q \in {"wipe", "scenario", "tool"} :
          Go(q) /\ (q = "wipe" <=> Kind = "input") /\ (q = "scenario" <=> Kind = "sta")
    BY <1>4 DEF Unstamp
  <2>2. proc'.pc = q /\ I' = I /\ proc'.done = proc.done /\ Kind' = Kind
    BY <2>1, <1>i, GoOn DEF Steps, Work, Kind, I
  <2>3. \A p \in Parts : disk'[I][p].new = FALSE
    BY <1>4, <1>i, <1>t, OldFile DEF Unstamp, TypeOK
  <2>4. verdict'[I].new = FALSE
    BY <1>4, <1>i, <1>t, OldFile DEF Unstamp, TypeOK
  <2>5. Kind \in {"input", "tool", "spef", "calibre", "sta"} /\ (Kind = "input" <=> I = 1)
    BY <1>i, ChainShape DEF Kind
  <2>6. KindInv'
    BY <2>1, <2>2, <2>5 DEF KindInv, At
  <2>7. stamp'[I] = "no" /\ WorkInv'
    BY <1>4, <2>1, <2>2, <1>i, <1>t DEF Unstamp, WorkInv, TypeOK, At
  <2>8. FreshInv' /\ JudgedInv'
    BY <2>2, <2>3, <2>4 DEF FreshInv, JudgedInv
  <2>9. StaInv'
    BY <1>4, <2>1, <2>2 DEF Unstamp, ChainInv, WorkInv, StaInv, At
  <2>10. StampInv'
    BY <2>1, <2>2 DEF StampInv, At
  <2>11. OneArchive' /\ VerdictIsOwn'
    <3>1. I \notin Settled /\ stamp[I] # "yes"
      BY <1>4, <1>i, SettledStamp DEF Unstamp, ChainInv, WorkInv
    <3>2. Settled' \subseteq Settled
      BY <1>4, <3>1, <1>t, <1>i, <2>7 DEF Unstamp, Settled, TypeOK
    <3>3. \A i \in Settled : disk'[i] = disk[i] /\ verdict'[i] = verdict[i]
      BY <1>4, <3>1, <1>t, <1>i, SettledStamp DEF Unstamp, TypeOK
    <3> QED BY <1>4, <1>o, <3>2, <3>3, OffSettled DEF Unstamp, At
  <2> QED BY <1>t, <2>6, <2>7, <2>8, <2>9, <2>10, <2>11 DEF ChainInv
<1>5. CASE Judge
  <2>1. \/ proc'.pc = "idle"
        \/ /\ proc'.pc = "stamp" /\ I' = I /\ Kind' = Kind /\ Expected' = Expected
           /\ \A f \in Expected : There(f) /\ f.new
    BY <1>5, <1>i, GoOn, Stops DEF Judge, Steps, Work, Kind, Expected, I
  <2>2. OneArchive' /\ VerdictIsOwn' /\ Settled' = Settled
    BY <1>5, <1>a DEF Judge, At
  <2>3. CASE proc'.pc = "idle"
    BY <1>t, <2>3, <2>2, Halted DEF ChainInv, WorkInv, Working, Work, At
  <2>4. CASE proc'.pc = "stamp" /\ I' = I /\ Kind' = Kind /\ Expected' = Expected
             /\ \A f \in Expected : There(f) /\ f.new
    <3>1. StampInv' /\ StaInv' /\ KindInv'
      BY <2>4 DEF StampInv, StaInv, KindInv, At, There
    <3>2. WorkInv'
      BY <1>5, <2>4 DEF Judge, ChainInv, WorkInv, Working, Work, At
    <3>3. FreshInv' /\ JudgedInv'
      BY <1>5, <2>2, <2>4 DEF Judge, ChainInv, FreshInv, JudgedInv, Working, Work, At, There,
         Delivered, Fine
    <3> QED BY <1>t, <2>2, <3>1, <3>2, <3>3 DEF ChainInv
  <2> QED BY <2>1, <2>3, <2>4
<1>6. CASE Stamp
  <2>1. proc'.pc = "next" /\ At("stamp") /\ Working
    BY <1>6, <1>i, GoOn DEF Stamp, Steps, At, Working, Work
  <2>2. /\ \A k \in Stages : k # I /\ k # I + 1 => stamp'[k] = stamp[k]
        /\ I + 1 \in Stages => stamp'[I + 1] # "yes"
    BY <1>6, <1>i, <1>t, ChainShape DEF Stamp, Behind, TypeOK, Stages
  <2>3. \A i \in Settled' : i <= I /\ (i < I => i \in Settled)
    <3> SUFFICES ASSUME NEW i \in Settled' PROVE i <= I /\ (i < I => i \in Settled)
      OBVIOUS
    <3>1. i \in Stages /\ i \in Nat /\ \A k \in 1..i : k \in Stages /\ stamp'[k] = "yes"
      BY ChainShape DEF Settled, Stages
    <3>2. i <= I
      <4> SUFFICES ASSUME ~(i <= I) PROVE FALSE
        OBVIOUS
      <4>1. I + 1 \in 1..i
        BY <1>i, <3>1
      <4> QED BY <3>1, <4>1, <2>2
    <3>3. ASSUME i < I PROVE i \in Settled
      <4>1. \A k \in 1..i : k \in Stages /\ k # I /\ k # I + 1
        BY <3>1, <3>3, <1>i
      <4> QED BY <3>1, <4>1, <2>2 DEF Settled
    <3> QED BY <3>2, <3>3
  <2>4. ASSUME ~torn, I \in Settled'
        PROVE  /\ Delivered(I) = {archive} /\ There(verdict[I])
               /\ Kind \in {"spef", "calibre", "sta"} =>
                    /\ verdict[I].from = Delivered(I)
                    /\ \A p \in Parts : There(disk[I][p]) => disk[I][p].clean
    <3>1. I = 1 \/ I - 1 \in Settled
      <4> SUFFICES ASSUME I # 1 PROVE I - 1 \in Settled
        OBVIOUS
      <4>1. I - 1 \in Stages /\ \A k \in 1..(I - 1) : k \in Stages /\ k \in 1..I /\ k # I /\ k # I + 1
        BY <1>i, ChainShape DEF Stages
      <4> QED BY <4>1, <2>2, <2>4 DEF Settled
    <3>2. \A p \in Parts : disk[I][p].new => disk[I][p].from = {archive}
      BY <2>1, <2>4, <3>1 DEF ChainInv, FreshInv
    <3>3. verdict[I].new /\ There(verdict[I])
      BY <2>1 DEF ChainInv, StampInv, Expected
    <3>4. CASE Kind \in {"spef", "calibre", "sta"}
      <4>1. /\ verdict[I].from = Delivered(I) /\ \E p \in Parts : Fine(p)
            /\ \A p \in Parts : There(disk[I][p]) => Fine(p)
        BY <2>1, <3>3, <3>4 DEF ChainInv, JudgedInv, Checkers
      <4>2. Delivered(I) = {archive}
        BY <4>1, <3>2 DEF Delivered, Fine, There
      <4> QED BY <3>3, <4>1, <4>2 DEF Fine
    <3>5. CASE Kind \in {"input", "tool"}
      <4>1. \A p \in Parts : disk[I][p].from = {archive}
        BY <2>1, <3>2, <3>5 DEF ChainInv, StampInv, Expected
      <4>2. Delivered(I) = {archive}
        BY <4>1, ChainAssumption DEF Delivered
      <4> QED BY <3>3, <3>5, <4>2
    <3> QED BY <3>4, <3>5, <1>i, ChainShape DEF Kind
  <2>5. \A i : Delivered(i)' = Delivered(i)
    BY <1>6 DEF Stamp, Delivered
  <2>6. OneArchive' /\ VerdictIsOwn'
    <3> SUFFICES ASSUME ~torn, NEW i \in Settled'
                 PROVE  /\ Delivered(i) = {archive} /\ There(verdict[i])
                        /\ Kinds[i] \in {"spef", "calibre", "sta"} =>
                             /\ verdict[i].from = Delivered(i)
                             /\ \A p \in Parts : There(disk[i][p]) => disk[i][p].clean
      BY <1>6, <2>5 DEF Stamp, OneArchive, VerdictIsOwn, There
    <3>1. CASE i = I
      BY <3>1, <2>4 DEF Kind
    <3>2. CASE i < I
      BY <3>2, <2>1, <2>3, <1>o DEF OneArchive, VerdictIsOwn, At
    <3>3. i \in Nat
      BY ChainShape DEF Settled
    <3> QED BY <3>1, <3>2, <3>3, <2>3, <1>i
  <2> QED BY <1>t, <2>1, <2>6, Halted DEF ChainInv, WorkInv, Working, Work, At
<1>b. ASSUME Working, UNCHANGED <<archive, stamp, torn>>, NEW D, NEW v,
             disk' = [disk EXCEPT ![I] = D], verdict' = [verdict EXCEPT ![I] = v],
             proc'.pc \in Work, I' = I
      PROVE  /\ OneArchive' /\ VerdictIsOwn' /\ Settled' = Settled /\ WorkInv'
             /\ disk'[I'] = D /\ verdict'[I'] = v /\ Kind' = Kind
             /\ D = disk[I] => disk' = disk
  <2>1. ~At("rmstamp") /\ I \notin Settled
    BY <1>b, <1>i, SettledStamp DEF ChainInv, WorkInv, Working, Work, At
  <2>2. \A i \in Settled : disk'[i] = disk[i] /\ verdict'[i] = verdict[i]
    BY <1>b, <1>t, <2>1, SettledStamp DEF TypeOK
  <2>3. WorkInv'
    BY <1>b DEF ChainInv, WorkInv, Working, Work, At
  <2>4. disk'[I'] = D /\ verdict'[I'] = v /\ Kind' = Kind /\ (D = disk[I] => disk' = disk)
    BY <1>b, <1>t, <1>i DEF TypeOK, Kind
  <2> QED BY <1>b, <2>1, <2>2, <2>3, <2>4, <1>a
<1>c. /\ disk = [disk EXCEPT ![I] = disk[I]] /\ verdict = [verdict EXCEPT ![I] = verdict[I]]
      /\ Kind \in {"input", "tool", "spef", "calibre", "sta"} /\ (Kind = "input" <=> I = 1)
  BY <1>t, <1>i, ChainShape DEF TypeOK, Kind
<1>7. CASE Wipe
  <2>1. proc'.pc = "unpack" /\ I' = I /\ At("wipe") /\ Working
    BY <1>7, <1>i, GoOn DEF Wipe, Steps, Work, Working, At
  <2>2. /\ OneArchive' /\ VerdictIsOwn' /\ WorkInv' /\ Kind' = Kind
        /\ disk'[I'] = [p \in Parts |-> None] /\ verdict'[I'] = verdict[I]
    BY <1>7, <2>1, <1>b, <1>c DEF Wipe, Work
  <2>3. I = 1 /\ Kind = "input"
    BY <2>1, <1>c DEF ChainInv, KindInv, At
  <2>4. FreshInv'
    BY <2>2 DEF FreshInv, None
  <2>5. KindInv' /\ JudgedInv' /\ StaInv' /\ StampInv'
    BY <2>1, <2>2, <2>3 DEF KindInv, JudgedInv, Checkers, StaInv, StampInv, At
  <2> QED BY <1>t, <2>2, <2>4, <2>5 DEF ChainInv
<1>8. CASE Unpack
  <2> DEFINE new == [from |-> {archive}, new |-> TRUE, clean |-> TRUE]
  <2>1. proc'.pc = "judge" /\ I' = I /\ At("unpack") /\ Working
    BY <1>8, <1>i, GoOn DEF Unpack, Steps, Work, Working, At
  <2>2. PICK W, v :
          /\ W \in SUBSET Parts
          /\ disk' = [disk EXCEPT ![I] = [p \in Parts |-> IF p \in W THEN new ELSE @[p]]]
          /\ verdict' = [verdict EXCEPT ![I] = v]
    <3>1. CASE disk' = [disk EXCEPT ![I] = [p \in Parts |-> new]]
               /\ verdict' = [verdict EXCEPT ![I] = new]
      <4>1. [p \in Parts |-> new] = [p \in Parts |-> IF p \in Parts THEN new ELSE disk[I][p]]
        OBVIOUS
      <4> QED BY <3>1, <4>1
    <3>2. CASE (\E W \in SUBSET Parts :
                  disk' = [disk EXCEPT ![I] = [p \in Parts |-> IF p \in W THEN new ELSE @[p]]])
               /\ verdict' = verdict
      BY <3>2, <1>c
    <3> QED BY <1>8, <3>1, <3>2 DEF Unpack
  <2>3. /\ OneArchive' /\ VerdictIsOwn' /\ WorkInv' /\ Kind' = Kind /\ Settled' = Settled
        /\ disk'[I'] = [p \in Parts |-> IF p \in W THEN new ELSE disk[I][p]]
    BY <1>8, <2>1, <2>2, <1>b DEF Unpack, Work
  <2>4. I = 1 /\ Kind = "input"
    BY <2>1, <1>c DEF ChainInv, KindInv, At
  <2>5. FreshInv'
    BY <1>8, <2>1, <2>3, <2>4 DEF Unpack, ChainInv, FreshInv
  <2>6. KindInv' /\ JudgedInv' /\ StaInv' /\ StampInv'
    BY <2>1, <2>3, <2>4 DEF KindInv, JudgedInv, Checkers, StaInv, StampInv, At
  <2> QED BY <1>t, <2>3, <2>5, <2>6 DEF ChainInv
<1>w. ASSUME Working, NEW W \in SUBSET Parts, NEW dirty \in SUBSET W, disk'[I'] = Writes(W, dirty),
             Kind # "calibre" => dirty = {}, I' = I, Kind' = Kind, UNCHANGED <<archive, torn>>,
             Settled' = Settled
      PROVE  FreshInv'
  <2> SUFFICES ASSUME NEW p \in Parts, disk'[I'][p].new
               PROVE  /\ ~torn /\ (I = 1 \/ I - 1 \in Settled) => disk'[I'][p].from = {archive}
                      /\ Kind # "calibre" => disk'[I'][p].clean
    BY <1>w DEF FreshInv
  <2>1. CASE p \in W
    <3>1. disk'[I'][p] = [from |-> Source(I), new |-> TRUE, clean |-> p \notin dirty]
      BY <1>w, <2>1 DEF Writes
    <3>2. ~torn /\ (I = 1 \/ I - 1 \in Settled) => Source(I) = {archive}
      BY <1>w, <1>t, <1>o, SourceIsArchive DEF Working, Work, At
    <3>3. disk'[I'][p].clean = (p \notin dirty) /\ disk'[I'][p].from = Source(I)
      BY <3>1
    <3>4. Kind # "calibre" => dirty = {}
      BY <1>w
    <3>5. Kind # "calibre" => disk'[I'][p].clean
      BY <3>3, <3>4
    <3> QED BY <3>2, <3>3, <3>5
  <2>2. CASE p \notin W
    <3>1. disk'[I'][p] = disk[I][p]
      BY <1>w, <2>2 DEF Writes
    <3> QED BY <1>w, <3>1 DEF ChainInv, FreshInv
  <2> QED BY <2>1, <2>2
<1>9. CASE Tool
  <2>1. PICK W, v : /\ W \in SUBSET Parts
                    /\ disk' = [disk EXCEPT ![I] = Writes(W, {})]
                    /\ verdict' = [verdict EXCEPT ![I] = v]
    BY <1>9, <1>c DEF Tool
  <2>2. proc'.pc = "judge" /\ I' = I /\ At("tool") /\ Working /\ Kind = "tool"
    BY <1>9, <1>i, GoOn DEF Tool, Steps, Work, Working, At
  <2>3. /\ OneArchive' /\ VerdictIsOwn' /\ WorkInv' /\ Kind' = Kind /\ Settled' = Settled
        /\ disk'[I'] = Writes(W, {})
    BY <1>9, <2>1, <2>2, <1>b DEF Tool, Work
  <2>4. FreshInv'
    BY <1>9, <2>1, <2>2, <2>3, <1>w DEF Tool
  <2>5. KindInv' /\ JudgedInv' /\ StaInv' /\ StampInv'
    BY <2>2, <2>3 DEF KindInv, JudgedInv, Checkers, StaInv, StampInv, At
  <2> QED BY <1>t, <2>3, <2>4, <2>5 DEF ChainInv
<1>10. CASE Run_checked
  <2>1. proc'.pc = "checked" /\ I' = I /\ At("tool") /\ Working /\ Kind \in {"spef", "calibre"}
    BY <1>10, <1>i, GoOn DEF Run_checked, Steps, Work, Working, At
  <2>2. /\ OneArchive' /\ VerdictIsOwn' /\ WorkInv' /\ Kind' = Kind /\ Settled' = Settled
        /\ verdict'[I'] = None
    BY <1>10, <2>1, <1>b, <1>c DEF Run_checked, Work
  <2>3. FreshInv'
    BY <1>10, <2>1, <2>2 DEF Run_checked, ChainInv, FreshInv
  <2>4. KindInv' /\ JudgedInv' /\ StaInv' /\ StampInv'
    BY <2>1, <2>2 DEF KindInv, JudgedInv, None, StaInv, StampInv, At
  <2> QED BY <1>t, <2>2, <2>3, <2>4 DEF ChainInv
<1>11. CASE Checked
  <2>1. PICK W \in SUBSET Parts : \E dirty \in SUBSET W :
          (Kind = "spef" => dirty = {}) /\ disk' = [disk EXCEPT ![I] = Writes(W, dirty)]
    BY <1>11 DEF Checked
  <2>2. PICK dirty \in SUBSET W :
          (Kind = "spef" => dirty = {}) /\ disk' = [disk EXCEPT ![I] = Writes(W, dirty)]
    BY <2>1
  <2>3. proc'.pc \in {"check", "judge"} /\ I' = I /\ At("checked") /\ Working
    BY <1>11, <1>i, GoOn DEF Checked, Steps, Work, Working, At
  <2>4. /\ OneArchive' /\ VerdictIsOwn' /\ WorkInv' /\ Kind' = Kind /\ Settled' = Settled
        /\ disk'[I'] = Writes(W, dirty) /\ verdict'[I'] = verdict[I]
    BY <1>11, <2>2, <2>3, <1>b, <1>c DEF Checked, Work
  <2>5. Kind \in {"spef", "calibre"}
    BY <2>3 DEF ChainInv, KindInv, At
  <2>6. FreshInv'
    BY <1>11, <2>2, <2>3, <2>4, <2>5, <1>w DEF Checked
  <2>7. ~verdict[I].new
    BY <2>3, <2>5 DEF ChainInv, JudgedInv, Checkers, At
  <2>8. KindInv' /\ JudgedInv' /\ StaInv' /\ StampInv'
    BY <2>3, <2>4, <2>5, <2>7 DEF KindInv, JudgedInv, StaInv, StampInv, At
  <2> QED BY <1>t, <2>4, <2>6, <2>8 DEF ChainInv
<1>d. ASSUME Write_verdict, Working, Kind \in Checkers, UNCHANGED <<archive, stamp, torn, disk>>,
             proc'.pc = "judge", I' = I, \E p \in Parts : Fine(p),
             \A p \in Parts : There(disk[I][p]) => Fine(p)
      PROVE  ChainInv'
  <2>1. /\ OneArchive' /\ VerdictIsOwn' /\ WorkInv' /\ Kind' = Kind /\ Settled' = Settled
        /\ verdict'[I'] = [from |-> Delivered(I), new |-> TRUE, clean |-> TRUE]
    BY <1>d, <1>b, <1>c DEF Write_verdict, Work
  <2>2. FreshInv'
    BY <1>d, <2>1 DEF ChainInv, FreshInv
  <2>3. Delivered(I)' = Delivered(I)
    BY <1>d DEF Delivered
  <2>4. JudgedInv'
    BY <1>d, <2>1, <2>3 DEF JudgedInv, Fine, There
  <2>5. KindInv' /\ StaInv' /\ StampInv'
    BY <1>d DEF KindInv, StaInv, StampInv, At
  <2> QED BY <1>t, <2>1, <2>2, <2>4, <2>5 DEF ChainInv
<1>12. CASE Check
  <2>1. proc'.pc = "judge" /\ I' = I /\ At("check") /\ Working
    BY <1>12, <1>i, GoOn DEF Check, Steps, Work, Working, At
  <2>2. Kind \in {"spef", "calibre"}
    BY <2>1 DEF ChainInv, KindInv, At
  <2>3. CASE Apply_check /\ Write_verdict
    <3>1. \A p \in Parts : There(disk[I][p]) => Fine(p)
      BY <2>1, <2>2, <2>3 DEF Apply_check, Fine, ChainInv, FreshInv
    <3>2. \E p \in Parts : There(disk[I][p])
      BY <2>2, <2>3, ChainAssumption DEF Apply_check
    <3> QED BY <1>12, <2>1, <2>2, <2>3, <3>1, <3>2, <1>d DEF Check, Checkers
  <2>4. CASE UNCHANGED verdict
    <3>1. ~verdict[I].new
      BY <2>1, <2>2 DEF ChainInv, JudgedInv, Checkers, At
    <3>2. /\ OneArchive' /\ VerdictIsOwn' /\ WorkInv' /\ Kind' = Kind /\ Settled' = Settled
          /\ verdict'[I'] = verdict[I]
      BY <1>12, <2>1, <2>4, <1>b, <1>c DEF Check, Work
    <3>3. FreshInv'
      BY <1>12, <2>1, <3>2 DEF Check, ChainInv, FreshInv
    <3>4. KindInv' /\ JudgedInv' /\ StaInv' /\ StampInv'
      BY <2>1, <3>1, <3>2 DEF KindInv, JudgedInv, StaInv, StampInv, At
    <3> QED BY <1>t, <3>2, <3>3, <3>4 DEF ChainInv
  <2> QED BY <1>12, <2>3, <2>4 DEF Check
<1>13. CASE Scenario
  <2>1. PICK q \in Parts \ proc.done :
          /\ disk' = [disk EXCEPT ![I][q] = None]
          /\ proc' = [proc EXCEPT !.pc = "analysis", !.done = @ \cup {q}]
    BY <1>13 DEF Scenario
  <2>2. proc'.pc = "analysis" /\ I' = I /\ proc'.done = proc.done \cup {q}
    BY <2>1, <1>i DEF Procs, I
  <2>3. At("scenario") /\ Working /\ Kind = "sta"
    BY <1>13 DEF Scenario, Working, Work, At, ChainInv, KindInv
  <2>4. ~verdict[I].new
    BY <2>3 DEF ChainInv, JudgedInv, Checkers, At
  <2>5. PICK v : verdict' = [verdict EXCEPT ![I] = v] /\ ~v.new
    <3>1. ~None.new
      BY DEF None
    <3> QED BY <1>13, <2>4, <1>c, <3>1 DEF Scenario
  <2>6. /\ OneArchive' /\ VerdictIsOwn' /\ WorkInv' /\ Kind' = Kind /\ Settled' = Settled
        /\ disk'[I'] = [disk[I] EXCEPT ![q] = None] /\ verdict'[I'] = v
    BY <1>13, <2>1, <2>2, <2>3, <2>5, <1>b DEF Scenario, Work
  <2>7. disk'[I'][q] = None /\ \A p \in Parts : p # q => disk'[I'][p] = disk[I][p]
    BY <2>6, <1>i
  <2>8. FreshInv'
    BY <1>13, <2>2, <2>3, <2>6, <2>7 DEF Scenario, ChainInv, FreshInv, None
  <2>9. StaInv'
    <3>1. ~There(disk[I][q])' /\ q \in proc'.done
      BY <2>2, <2>7 DEF There, None
    <3>2. \A p \in proc'.done \ {q} : Fine(p)'
      BY <2>1, <2>2, <2>3, <2>7, <1>i DEF ChainInv, StaInv, Fine, There, Procs
    <3> QED BY <2>2, <3>1, <3>2 DEF StaInv, At
  <2>10. KindInv' /\ JudgedInv' /\ StampInv'
    BY <2>2, <2>3, <2>5, <2>6 DEF KindInv, JudgedInv, StampInv, At
  <2> QED BY <1>t, <2>6, <2>8, <2>9, <2>10 DEF ChainInv
<1>14. CASE Analysis
  <2>1. PICK exit \in {0, 1}, marker \in BOOLEAN, q \in proc.done :
        /\ ~There(disk[I][q])
        /\ ~Readable(I) => exit = 1 /\ ~marker
        /\ disk' = [disk EXCEPT ![I] = Writes(IF marker THEN {q} ELSE {}, {})]
        /\ CASE exit # 0            -> Exit("judge", exit)
             [] exit = 0 /\ ~marker -> Exit("judge", 2)
             [] exit = 0 /\ marker  -> Exit(IF proc.done = Parts THEN "summary" ELSE "scenario", 0)
    BY <1>14 DEF Analysis
  <2>2. At("analysis") /\ Working /\ Kind = "sta"
    BY <1>14 DEF Analysis, Working, Work, At, ChainInv, KindInv
  <2>3. \/ Exit("judge", exit) \/ Exit("judge", 2)
        \/ marker /\ Exit("summary", 0) /\ proc.done = Parts
        \/ marker /\ Exit("scenario", 0)
    BY <2>1
  <2>4. /\ I' = I /\ proc'.done = proc.done
        /\ \/ proc'.pc = "judge"
           \/ marker /\ proc'.pc = "summary" /\ proc.done = Parts
           \/ marker /\ proc'.pc = "scenario"
    BY <2>3, <1>i, GoOn DEF Steps, Work
  <2>5. PICK W \in SUBSET Parts : W = (IF marker THEN {q} ELSE {})
    BY <1>i DEF Procs
  <2>6. /\ OneArchive' /\ VerdictIsOwn' /\ WorkInv' /\ Kind' = Kind /\ Settled' = Settled
        /\ disk'[I'] = Writes(W, {}) /\ verdict'[I'] = verdict[I]
    BY <1>14, <2>1, <2>2, <2>4, <2>5, <1>b, <1>c DEF Analysis, Work
  <2>7. FreshInv'
    BY <1>14, <2>2, <2>4, <2>6, <1>w DEF Analysis
  <2>8. ~verdict[I].new
    BY <2>2 DEF ChainInv, JudgedInv, Checkers, At
  <2>9. KindInv' /\ JudgedInv' /\ StampInv'
    BY <2>2, <2>4, <2>6, <2>8 DEF KindInv, JudgedInv, StampInv, At
  <2>10. StaInv'
    <3>1. CASE proc'.pc = "judge"
      BY <3>1 DEF StaInv, At
    <3>2. CASE marker /\ proc'.pc # "judge"
      <4>1. \A p \in proc.done \ {q} : Fine(p)
        BY <2>1, <2>2 DEF ChainInv, StaInv, Fine
      <4>2. proc.done \subseteq Parts
        BY <1>i DEF Procs
      <4>3. /\ disk'[I'][q] = [from |-> Source(I), new |-> TRUE, clean |-> TRUE]
            /\ \A p \in Parts \ {q} : disk'[I'][p] = disk[I][p]
        BY <2>5, <2>6, <3>2, <4>2 DEF Writes
      <4>4. Source(I) # {}
        BY <2>1, <3>2, <1>t, SourceThere
      <4>5. \A p \in proc'.done : Fine(p)'
        BY <2>4, <4>1, <4>2, <4>3, <4>4 DEF Fine, There
      <4> QED BY <2>4, <3>2, <4>5 DEF StaInv, At
    <3> QED BY <2>4, <3>1, <3>2
  <2> QED BY <1>t, <2>6, <2>7, <2>9, <2>10 DEF ChainInv
<1>15. CASE Summary
  <2>1. proc'.pc = "judge" /\ I' = I /\ At("summary") /\ Working /\ Kind = "sta"
    BY <1>15, <1>i, GoOn DEF Summary, Steps, Work, Working, At, ChainInv, KindInv
  <2>2. \A p \in Parts : Fine(p)
    BY <2>1 DEF ChainInv, StaInv
  <2> QED BY <1>15, <2>1, <2>2, <1>d, ChainAssumption DEF Summary, Checkers
<1>16. CASE \E i \in Stages : Clean(i)
  <2>1. proc'.pc = "rmtree" /\ At("idle")
    BY <1>16 DEF Clean, Start
  <2>2. OneArchive' /\ VerdictIsOwn'
    BY <1>16, <1>a DEF Clean, At
  <2> QED BY <1>t, <2>1, <2>2, Halted DEF ChainInv, WorkInv, Working, Work, At
<1>17. CASE Clean_directory
  <2>1. proc'.pc = "rmstamp" /\ I' = I /\ At("rmtree")
    BY <1>17, <1>i, GoOn DEF Clean_directory, Steps, At
  <2>2. Settled' = Settled
    BY <1>17 DEF Clean_directory, Settled
  <2>3. \A i \in Settled : i # I => disk'[i] = disk[i] /\ verdict'[i] = verdict[i]
    BY <1>17, <1>t, SettledStamp DEF Clean_directory, TypeOK
  <2>4. OneArchive' /\ VerdictIsOwn'
    BY <1>17, <2>1, <2>2, <2>3, <1>o, OffSettled DEF Clean_directory, At
  <2> QED BY <1>t, <2>1, <2>4, Halted DEF ChainInv, WorkInv, Working, Work, At
<1>18. CASE Clean_stamp
  <2>1. proc'.pc \in {"idle", "rmtree"}
    BY <1>18, Stops DEF Clean_stamp, Start
  <2>2. stamp' = [stamp EXCEPT ![I] = "no"]
    BY <1>18 DEF Clean_stamp
  <2>3. I \notin Settled' /\ Settled' \subseteq Settled
    <3>1. \A k \in Stages : stamp'[k] = "yes" => stamp[k] = "yes" /\ k # I
      BY <2>2, <1>t, <1>i DEF TypeOK
    <3>2. \A i \in Settled' : \A k \in 1..i : k \in Stages
      BY ChainShape DEF Settled, Stages
    <3> QED BY <3>1, <3>2, ChainShape DEF Settled
  <2>4. OneArchive' /\ VerdictIsOwn'
    BY <1>18, <2>3, <1>o, OffSettled DEF Clean_stamp
  <2> QED BY <1>t, <2>1, <2>4, Halted DEF ChainInv, WorkInv, Working, Work, At
<1>19. CASE Kill
  <2>1. proc'.pc = "idle"
    BY <1>19, Stops DEF Kill
  <2>2. Settled' = Settled
    BY <1>19 DEF Kill, Settled
  <2>3. \A i \in Settled : i # I => disk'[i] = disk[i] /\ verdict'[i] = verdict[i]
    BY <1>19, <1>t, SettledStamp DEF Kill, TypeOK
  <2>4. ~At("rmtree") => disk'[I] = disk[I] /\ verdict'[I] = verdict[I]
    BY <1>19, <1>t, <1>i DEF Kill, TypeOK
  <2>5. ~torn' => ~torn /\ (proc.pc \in {"rmtree", "rmstamp"} => I \notin Settled)
    BY <1>19, SettledStamp DEF Kill
  <2>6. OneArchive' /\ VerdictIsOwn'
    BY <1>19, <2>2, <2>3, <2>4, <2>5, <1>o, OffSettled DEF Kill, At
  <2> QED BY <1>t, <2>1, <2>6, Halted DEF ChainInv, WorkInv, Working, Work, At
<1>20. CASE Replace
  <2>2. Settled' = {}
    <3>1. stamp'[1] # "yes"
      BY <1>20, <1>t, ChainShape DEF Replace, TypeOK
    <3> QED BY <3>1, ChainShape DEF Settled
  <2>3. OneArchive' /\ VerdictIsOwn'
    BY <2>2 DEF OneArchive, VerdictIsOwn
  <2>4. WorkInv'
    BY <1>20, <1>t, <1>i, ChainShape DEF Replace, ChainInv, WorkInv, Working, At, I, TypeOK
  <2>5. Working => I # 1
    BY <1>20, <1>c DEF Replace, ChainInv, KindInv, Working, Work, At
  <2>6. FreshInv'
    BY <1>20, <2>2, <2>5 DEF Replace, ChainInv, FreshInv, Working, I, Kind
  <2>7. KindInv' /\ JudgedInv' /\ StaInv' /\ StampInv'
    BY <1>20 DEF Replace, ChainInv, KindInv, JudgedInv, StaInv, StampInv, Working, I, Kind, At,
       There, Delivered, Fine, Expected
  <2> QED BY <1>t, <2>3, <2>4, <2>6, <2>7 DEF ChainInv
<1>21. CASE UNCHANGED vars
  <2>1. Settled' = Settled /\ OneArchive' /\ VerdictIsOwn'
    BY <1>21, <1>o DEF vars, Settled, OneArchive, VerdictIsOwn, At, I, There, Delivered
  <2>2. KindInv' /\ WorkInv' /\ FreshInv' /\ JudgedInv' /\ StaInv' /\ StampInv'
    BY <1>21, <2>1 DEF vars, ChainInv, KindInv, WorkInv, FreshInv, JudgedInv, StaInv, StampInv,
       Working, I, Kind, At, There, Delivered, Fine, Expected
  <2> QED BY <1>t, <2>1, <2>2 DEF ChainInv
<1> QED
  BY <1>1, <1>2, <1>3, <1>4, <1>5, <1>6, <1>7, <1>8, <1>9, <1>10, <1>11, <1>12, <1>13, <1>14,
     <1>15, <1>16, <1>17, <1>18, <1>19, <1>20, <1>21 DEF Next

-----------------------------------------------------------------------------
(* The theorems.                                                           *)

LEMMA ChainStart == Init => ChainInv
<1> SUFFICES ASSUME Init PROVE ChainInv
  OBVIOUS
<1>1. archive = 1 /\ None \in Files
  BY NoneIsFile DEF Init
<1>2. TypeOK
  <2>1. archive \in 1..MaxArchives /\ runs \in 0..MaxRuns
    BY <1>1, ChainAssumption DEF Init
  <2>5. proc \in Procs /\ torn \in BOOLEAN
    BY Stops, Zenon DEF Init
  <2>2. stamp \in [Stages -> {"no", "old", "yes"}]
    BY DEF Init
  <2>3. [p \in Parts |-> None] \in [Parts -> Files]
    BY <1>1
  <2>4. disk \in [Stages -> [Parts -> Files]] /\ verdict \in [Stages -> Files]
    BY <1>1, <2>3 DEF Init
  <2> QED BY <2>1, <2>2, <2>4, <2>5 DEF TypeOK
<1>3. Settled = {} /\ proc.pc = "idle"
  BY ChainShape, Stops DEF Init, Settled
<1> QED
  BY <1>2, <1>3, Zenon DEF ChainInv, KindInv, WorkInv, FreshInv, JudgedInv, StaInv, StampInv,
     Working, Work, At, OneArchive, VerdictIsOwn

\* The invariant of the chain, of which the theorems below are parts.
THEOREM ChainInvariant == Spec => []ChainInv
BY ChainStart, ChainStep, PTL DEF Spec

\* Type correctness of run_stage.py, clean_stage.py and the commands they run.
THEOREM ChainTypeCorrect == Spec => []TypeOK
<1>1. ChainInv => TypeOK
  BY DEF ChainInv
<1> QED BY <1>1, ChainInvariant, PTL

\* Whatever is killed, replaced or cleaned at any step, the stages Make will not
\* run again were made from the archive there is, in a chain of any length.
THEOREM ChainOneArchive == Spec => []OneArchive
<1>1. ChainInv => OneArchive
  BY DEF ChainInv
<1> QED BY <1>1, ChainInvariant, PTL

\* The verdict of a settled extraction, layout verification or timing stage is
\* about the files beside it and found them clean, in a chain of any length.
THEOREM ChainVerdictIsOwn == Spec => []VerdictIsOwn
<1>1. ChainInv => VerdictIsOwn
  BY DEF ChainInv
<1> QED BY <1>1, ChainInvariant, PTL
=============================================================================
