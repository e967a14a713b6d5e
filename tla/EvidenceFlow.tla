---------------------------- MODULE EvidenceFlow ----------------------------
(***************************************************************************)
(* The qualification scripts at work on one disk: sources that a developer *)
(* edits at any moment, build products in a shared variant directory that  *)
(* the next build overwrites, attempt records and the pointers to the      *)
(* newest of them, and one recipe running (with the recipes it calls),     *)
(* which may raise at any step or be killed.                               *)
(***************************************************************************)
EXTENDS EvidenceCampaigns, FiniteSetsExt, Functions

CONSTANT MaxEdits     \* edits of the sources

ASSUME BoundsAssumption == MaxEdits \in Nat

VARIABLES camp,     \* the campaign, fixed
          src,      \* version of each class of sources
          files,    \* shared build products: sources they stem from, age
          recs,     \* the records on the disk, by group, oldest first
          latest,   \* latest.json of each group, or the fixed document
          job,      \* stack of the recipes running
          starts

vars == <<camp, src, files, recs, latest, job, starts>>

NoFile == [ver |-> <<>>, seen |-> {}]
NoLog  == [exit |-> 0, ended |-> FALSE, fail |-> FALSE, wrong |-> {}]

\* A record as the scripts keep it: status, digest of the sources, products
\* made for it, files and records it refers to, the log that was judged.  "ran"
\* is what its command loaded, which no script writes down.
Blank(g) == [g |-> g, st |-> "running", dig |-> <<>>, made |-> <<>>, ran |-> <<>>,
             refs |-> <<>>, uses |-> {}, log |-> NoLog, gap |-> FALSE]

Put(f, k, v) == [x \in DOMAIN f \cup {k} |-> IF x = k THEN v ELSE f[x]]

\* The innermost recipe: its name, the steps done, record on disk (0 before
\* there is one) and record in memory.
Top    == job[Len(job)]
Below  == SubSeq(job, 1, Len(job) - 1)
Frame(j) == [name |-> j, done |-> 0, idx |-> 0, rec |-> Blank(<<>>)]

\* The steps it has left.
Left   == LET all == Recipes[Top.name] IN SubSeq(all, Top.done + 1, Len(all))

\* Checks without effect in a row are one step: any of them may raise.
Tries(todo) ==
    CHOOSE n \in DOMAIN todo :
        /\ \A k \in 1..n : todo[k].op = "try"
        /\ n < Len(todo) => todo[n + 1].op # "try"

\* The sections a workload prints: those that its recipe goes on to judge.
Printed(todo) ==
    LET Judged(step) == CASE step.op \in {"run", "weigh", "result"} -> step.p.checks
                          [] step.op = "judge" -> step.checks
                          [] OTHER -> {}
    IN  UNION {Judged(todo[n]) : n \in DOMAIN todo}

Shared == DOMAIN files

\* A record is named by its group and its number there.
Newest(g) == <<g, latest[g]>>
Rec(k)    == recs[k[1]][k[2]]

\* The documents there are: the age of a product is what it has seen.
Written == {Newest(g) : g \in {h \in DOMAIN latest : latest[h] # 0}}

\* What is dumped of a record that has not passed: nobody reads more of it
\* than its status, unless it can be resumed.
OnDisk(rec, st) ==
    IF st = "passed" \/ rec.g \in Resumable \cup Borrowed THEN [rec EXCEPT !.st = st]
    ELSE [Blank(rec.g) EXCEPT !.st = st]

-----------------------------------------------------------------------------
\* Every product hashed in the shared directory still has those contents.
IntactFiles(r) ==
    /\ \A f \in DOMAIN r.made \cap Shared : files[f].ver = r.made[f]
    /\ \A f \in DOMAIN r.refs \cap Shared : files[f].ver = r.refs[f]

\* The validators accept a record that passed and is intact, together with
\* the records it names.
Intact(i) ==
    /\ i[2] > 0 /\ Rec(i).st = "passed" /\ IntactFiles(Rec(i))
    /\ \A k \in Rec(i).uses : Rec(k).st = "passed" /\ IntactFiles(Rec(k))

Go(n, rec)  == job' = Append(Below, [Top EXCEPT !.done = @ + n, !.rec = rec])
Quiet       == UNCHANGED <<camp, src, files, recs, latest, starts>>

\* An exception: every recipe on the stack that has a record marks it failed
\* and writes it ("except ... failed; finally: dump"), the others leave the
\* disk as it is.
Raise ==
    /\ recs' = [g \in DOMAIN recs |-> [i \in DOMAIN recs[g] |->
            IF \E n \in DOMAIN job : job[n].idx = i /\ job[n].rec.g = g
            THEN LET f == CHOOSE f \in {job[n] : n \in DOMAIN job} :
                            f.idx = i /\ f.rec.g = g
                 IN OnDisk(f.rec, "failed")
            ELSE recs[g][i]]]
    /\ job' = <<>>
    /\ UNCHANGED <<camp, src, files, latest, starts>>

\* A step that holds and goes on with the record rec, or raises.
Step(ok, rec) ==
    \/ ok /\ Go(1, rec) /\ Quiet
    \/ ~ok /\ Raise

DoTry(s, todo) ==
    /\ s.op = "try"
    /\ \/ Go(Tries(todo), Top.rec) /\ Quiet
       \/ Raise

DoDoubt(s) ==
    s.op = "doubt" /\ \E gap \in BOOLEAN : Step(TRUE, [Top.rec EXCEPT !.gap = @ \/ gap])

\* The number of a new attempt.  Nobody reads an attempt that did not pass once
\* there is a newer one, so its number is used again.
Attempt(g) ==
    LET n == Len(recs[g]) IN
    IF n > 0 /\ recs[g][n].st # "passed" THEN n ELSE n + 1

\* A number used again names an attempt no product has seen yet.
Renumber(g) ==
    files' = [f \in DOMAIN files |->
        [files[f] EXCEPT !.seen = @ \ {<<g, Attempt(g)>>}]]

DoMkdir(s) ==
    /\ s.op = "mkdir" /\ Renumber(s.g)
    /\ recs' = [recs EXCEPT ![s.g] =
            Append(SubSeq(@, 1, Attempt(s.g) - 1), [Blank(s.g) EXCEPT !.st = "absent"])]
    /\ job' = Append(Below, [Top EXCEPT !.done = @ + 1, !.idx = Attempt(s.g),
                                        !.rec.g = s.g])
    /\ UNCHANGED <<camp, src, latest, starts>>

DoClaim(s) ==
    /\ s.op = "claim"
    /\ \/ /\ latest[s.g] = 0
          /\ recs' = [recs EXCEPT ![s.g] = <<[Blank(s.g) EXCEPT !.st = "absent"]>>]
          /\ latest' = [latest EXCEPT ![s.g] = 1]
          /\ job' = Append(Below, [Top EXCEPT !.done = @ + 1,
                    !.idx = IF s.keep THEN 1 ELSE 0, !.rec.g = s.g])
          /\ UNCHANGED <<camp, src, files, starts>>
       \/ latest[s.g] # 0 /\ Raise

DoPoint(s) ==
    /\ s.op = "point"
    /\ latest' = [latest EXCEPT ![Top.rec.g] = Top.idx]
    /\ Go(1, Top.rec)
    /\ UNCHANGED <<camp, src, files, recs, starts>>

DoSave(s) ==
    /\ s.op = "save"
    /\ recs' = [recs EXCEPT ![Top.rec.g][Top.idx] = OnDisk(Top.rec, Top.rec.st)]
    /\ Go(1, Top.rec)
    /\ UNCHANGED <<camp, src, files, latest, starts>>

DoPass(s) ==
    s.op = "pass" /\ Step(TRUE,
        [Top.rec EXCEPT !.st = IF Top.rec.gap THEN "incomplete" ELSE "passed"])

DoPublish(s) ==
    /\ s.op = "publish" /\ Renumber(s.g)
    /\ recs' = [recs EXCEPT ![s.g] = 
            Append(SubSeq(@, 1, Attempt(s.g) - 1), OnDisk([Top.rec EXCEPT !.g = s.g],
                    IF Top.rec.gap THEN "incomplete" ELSE "passed"))]
    /\ latest' = [latest EXCEPT ![s.g] = Attempt(s.g)]
    /\ Go(1, Top.rec)
    /\ UNCHANGED <<camp, src, starts>>

DoFresh(s)  == s.op = "fresh" /\ Step(latest[s.g] = 0, Top.rec)
DoAbsent(s) == s.op = "absent" /\ Step(files[s.f] = NoFile, Top.rec)
DoDigest(s) ==
    s.op = "digest" /\ Step(TRUE,
        [Top.rec EXCEPT !.dig = [c \in DOMAIN src \cap s.of |-> src[c]]])
DoSame(s)   == s.op = "same" /\ Step(Top.rec.dig = src, Top.rec)

DoCompile(s) ==
    /\ s.op = "compile"
    /\ \/ Step(TRUE, [Top.rec EXCEPT !.made = Put(@, s.f, src)])
       \/ Raise

DoMake(s) ==
    /\ s.op = "make"
    /\ \/ /\ files' = [files EXCEPT ![s.f] = [ver |-> src, seen |-> Written]]
          /\ Go(1, Top.rec)
          /\ UNCHANGED <<camp, src, recs, latest, starts>>
       \/ Raise

DoHold(s) ==
    s.op = "hold" /\ Step(files[s.f] # NoFile,
        [Top.rec EXCEPT !.made = Put(@, s.f, files[s.f].ver)])

DoAdopt(s) ==
    s.op = "adopt" /\ Step(files[s.f] # NoFile,
        [Top.rec EXCEPT !.refs = Put(@, s.f, files[s.f].ver)])

DoCheck(s) == s.op = "check" /\ Step(IntactFiles(Top.rec), Top.rec)

DoTake(s) ==
    /\ s.op = "take"
    /\ \E i \in IF s.pick THEN {s.g} \X (0..Len(recs[s.g])) ELSE {Newest(s.g)} :
        Step(Intact(i), [Top.rec EXCEPT !.uses = @ \cup {i}])

\* The classes of sources that differ between two digests.
Changed(a, b) == {c \in DOMAIN a \cap DOMAIN b : a[c] # b[c]}

Gap(ok, i) ==
    Step(TRUE, IF ok THEN [Top.rec EXCEPT !.uses = @ \cup {i}]
               ELSE [Top.rec EXCEPT !.gap = TRUE])

DoTakeNow(s) ==
    s.op = "takenow" /\ LET i == Newest(s.g) IN
        Gap(Intact(i) /\ Changed(Rec(i).dig, src) = {}, i)

DoTakeDelta(s) ==
    s.op = "takedelta" /\ LET i == Newest(s.g) IN
        Gap(Intact(i) /\ Changed(Rec(i).dig, Top.rec.dig) \subseteq s.may, i)

DoGlance(s) ==
    s.op = "glance" /\ LET i == Newest(s.g)
                        ok == i[2] > 0 /\ Rec(i).st = "passed" IN
        IF ok \/ s.soft THEN Gap(ok, i) ELSE Raise

DoLoad(s) ==
    s.op = "load" /\ Step(files[s.f] # NoFile,
        [Top.rec EXCEPT !.ran = Put(@, s.f, files[s.f].ver)])

DoOlder(s) ==
    s.op = "older" /\ Step(TRUE, [Top.rec EXCEPT !.gap =
        @ \/ files[s.f] = NoFile \/ Newest(s.g) \in files[s.f].seen])

\* The model converted now decides whether the old product is about it.
DoBorrow(s) ==
    s.op = "borrow" /\ LET i == Newest(s.g) IN
        Step(/\ i[2] > 0 /\ s.f \in DOMAIN Rec(i).made
             /\ Changed(Rec(i).dig, src) \subseteq s.may
             /\ Changed(Rec(i).made[s.f], src) \subseteq s.may,
             [Top.rec EXCEPT !.made =
                Put(@, s.f, IF i[2] > 0 THEN Rec(i).made[s.f] ELSE src)])

DoCurrent(s) == s.op = "current" /\
    Step(\A i \in Top.rec.uses : Rec(i).dig = Top.rec.dig, Top.rec)

DoPaired(s) == s.op = "paired" /\
    Step(\A i, k \in Top.rec.uses : Rec(i).dig = Rec(k).dig, Top.rec)

DoAgain(s) == s.op = "again" /\ Step(\A i \in Top.rec.uses : Intact(i), Top.rec)

\* What record i replayed: images of the records it used, reference files.
Replayed(i) == <<{Rec(k).made : k \in Rec(i).uses}, Rec(i).refs>>

DoAgree(s) ==
    /\ s.op = "agree"
    /\ LET ok == \A i, k \in Top.rec.uses : Replayed(i) = Replayed(k) IN
        Step(ok \/ s.soft, [Top.rec EXCEPT !.gap = @ \/ ~ok])

\* What the record keeps of a log.
Seen(log) == [exit |-> log.exit, ended |-> log.ends > 0, fail |-> log.fail,
              wrong |-> log.wrong]

DoRun(s, todo) ==
    /\ s.op = "run"
    /\ \E log \in Logs(Printed(todo)) :
        Step(Accepts(s.p, log), [Top.rec EXCEPT !.log = Seen(log)])

DoWeigh(s, todo) ==
    /\ s.op = "weigh"
    /\ \E log \in Logs(Printed(todo)) :
        Step(TRUE, [Top.rec EXCEPT !.gap = @ \/ ~Accepts(s.p, log),
                                   !.log = IF Accepts(s.p, log) THEN Seen(log) ELSE @])

\* The result of a case.  Reports hold a copy of it, so the one of an earlier
\* run stays a record here.
DoResult(s, todo) ==
    /\ s.op = "result" /\ Renumber(s.g)
    /\ \E log \in Logs(Printed(todo)) :
        LET ok  == Accepts(s.p, log)
            rec == [Top.rec EXCEPT !.g = s.g, !.uses = {}, !.gap = FALSE, !.log = Seen(log)]
            i   == <<s.g, Attempt(s.g)>>
        IN /\ recs' = [recs EXCEPT ![s.g] = Append(SubSeq(@, 1, i[2] - 1),
                    OnDisk(rec, IF ok THEN "passed" ELSE "failed"))]
           /\ latest' = [latest EXCEPT ![s.g] = i[2]]
           /\ Go(1, IF ok THEN [Top.rec EXCEPT !.uses = @ \cup {i}]
                             ELSE [Top.rec EXCEPT !.gap = TRUE])
    /\ UNCHANGED <<camp, src, starts>>

\* Used again as it is, or written anew with the label of today.
DoReuse(s) ==
    /\ s.op = "reuse"
    /\ LET old == Newest(s.g)
           hit == /\ old[2] > 0 /\ Rec(old).st = "passed" /\ Rec(old).refs = Top.rec.refs
                  /\ Changed(Rec(old).dig, Top.rec.dig) \subseteq s.may
           i   == IF hit /\ Rec(old).dig # Top.rec.dig THEN <<s.g, old[2] + 1>> ELSE old
       IN /\ recs' = IF i = old THEN recs
                     ELSE [recs EXCEPT ![s.g] = Append(@, [Rec(old) EXCEPT !.dig = Top.rec.dig])]
          /\ latest' = [latest EXCEPT ![s.g] = i[2]]
          /\ Go(1 + (IF hit THEN s.n ELSE 0),
                [Top.rec EXCEPT !.uses = IF hit THEN @ \cup {i} ELSE @])
    /\ UNCHANGED <<camp, src, files, starts>>

DoJudge(s) == s.op = "judge" /\ Step(Top.rec.log.wrong \cap s.checks = {}, Top.rec)

DoAfter(s) == s.op = "after" /\
    Step(files[s.f] # NoFile /\ {k \in Written : k[1] \in s.gs} \subseteq files[s.f].seen,
         Top.rec)

DoResume(s) ==
    /\ s.op = "resume"
    /\ \/ latest[s.g] = 0 /\ Step(TRUE, Top.rec)
       \/ latest[s.g] # 0 /\ job' = <<>> /\ Quiet

DoReopen(s) ==
    /\ s.op = "reopen"
    /\ LET i == Newest(s.g)
           mine == i[2] > 0 /\ Rec(i).st # "absent" /\ Rec(i).dig = Top.rec.dig
       IN job' = IF mine THEN Append(Below, [Top EXCEPT !.done = @ + 1, !.idx = i[2],
                                    !.rec = [Rec(i) EXCEPT !.st = "running"]])
                 ELSE <<>>
    /\ Quiet

DoUnless(s) ==
    s.op = "unless" /\ Quiet /\
    Go(1 + (IF \E i \in Top.rec.uses : i[1] = s.g THEN s.n ELSE 0),
       Top.rec)

DoCall(s) == s.op = "call" /\ job' = Append(job, Frame(s.j)) /\ Quiet

DoMoved(s) ==
    /\ s.op = "moved"
    /\ LET i == Newest(s.g)
           ch == IF i[2] = 0 THEN {} ELSE Changed(Rec(i).dig, Top.rec.dig)
       IN Step(i[2] > 0 /\ ch # {} /\ s.must \subseteq ch /\ ch \subseteq s.may,
               Top.rec)

\* The documents of gs that exist form a prefix, each step of it is an
\* admitted change, and the last stands for the digest.
DoChain(s) ==
    /\ s.op = "chain"
    /\ LET there == {n \in 1..Len(s.gs) : latest[s.gs[n]] # 0}
           dig(n) == Rec(Newest(s.gs[n])).dig
           ch(n) == Changed(dig(n - 1), dig(n))
       IN Step(/\ there = 1..Cardinality(there) /\ there # {}
               /\ dig(Cardinality(there)) = Top.rec.dig
               /\ \A n \in there \ {1} : ch(n) # {} /\ ch(n) \subseteq s.may[n],
               [Top.rec EXCEPT !.uses = @ \cup {Newest(s.gs[n]) : n \in there}])

\* The recipe returns; "finally: dump(record)" where it has one; the caller
\* goes on behind its call.
Return(todo) ==
    /\ todo = <<>>
    /\ recs' = IF Top.idx = 0 THEN recs
               ELSE [recs EXCEPT ![Top.rec.g][Top.idx] = OnDisk(Top.rec, Top.rec.st)]
    /\ job' = IF Below = <<>> THEN <<>>
              ELSE [Below EXCEPT ![Len(Below)].done = @ + 1]
    /\ UNCHANGED <<camp, src, files, latest, starts>>

-----------------------------------------------------------------------------
\* A recipe is started from the command line.
Start(c, j) ==
    /\ job = <<>> /\ starts < c.starts
    /\ c.script # <<>> => j = c.script[starts + 1]
    /\ job' = <<Frame(j)>> /\ starts' = starts + 1
    /\ UNCHANGED <<camp, src, files, recs, latest>>

\* A Make flow outside the recipes builds or replaces a shared product, also
\* while one of the long simulations of "meanwhile" runs.
Build(c, f) ==
    /\ job # <<>> => Top.name \in c.meanwhile
    /\ starts < c.starts
    /\ files' = [files EXCEPT ![f] = [ver |-> src, seen |-> Written]]
    /\ starts' = starts + 1
    /\ UNCHANGED <<camp, src, recs, latest, job>>

\* A developer edits one class of the sources.
Edit(c) ==
    /\ MapThenSumSet(LAMBDA k : src[k], DOMAIN src) < MaxEdits
    /\ src' = [src EXCEPT ![c] = @ + 1]
    /\ UNCHANGED <<camp, files, recs, latest, job, starts>>

\* The recipe is killed: the disk keeps what was dumped last.
Kill == job # <<>> /\ job' = <<>> /\ Quiet

Disk(c) ==
    /\ src = [k \in c.classes |-> 0]
    /\ files = [f \in c.files |->
            IF f \in c.have THEN [ver |-> src, seen |-> {}] ELSE NoFile]
    /\ recs = [g \in c.groups |-> IF g \in c.done
            THEN <<[Blank(g) EXCEPT !.st = "passed",
                            !.dig = [k \in Hashed(g) \cap DOMAIN src |-> src[k]]]>> ELSE <<>>]
    /\ latest = [g \in c.groups |-> Len(recs[g])]

Init ==
    /\ camp \in DOMAIN Campaigns /\ Disk(Campaigns[camp])
    /\ job = <<>> /\ starts = 0

Perform(s, todo) ==
    \/ DoTry(s, todo) \/ DoRun(s, todo) \/ DoWeigh(s, todo) \/ DoResult(s, todo)
    \/ DoDoubt(s) \/ DoGlance(s) \/ DoLoad(s) \/ DoOlder(s) \/ DoMkdir(s) \/ DoClaim(s)
    \/ DoPoint(s) \/ DoSave(s) \/ DoPass(s) \/ DoPublish(s) \/ DoFresh(s) \/ DoReuse(s)
    \/ DoAbsent(s) \/ DoDigest(s) \/ DoSame(s) \/ DoCompile(s) \/ DoMake(s) \/ DoHold(s)
    \/ DoAdopt(s) \/ DoCheck(s) \/ DoTake(s) \/ DoTakeNow(s) \/ DoTakeDelta(s)
    \/ DoBorrow(s) \/ DoCurrent(s) \/ DoPaired(s) \/ DoAgain(s) \/ DoAgree(s)
    \/ DoJudge(s) \/ DoAfter(s) \/ DoResume(s) \/ DoReopen(s) \/ DoUnless(s)
    \/ DoCall(s) \/ DoMoved(s) \/ DoChain(s)

\* The innermost recipe takes its next step.
RecipeStep ==
    /\ job # <<>>
    /\ \E todo \in {Left} :
        \/ Return(todo)
        \/ todo # <<>> /\ \E s \in {Head(todo)} : Perform(s, todo)

\* What happens around the recipes of campaign c.
Around(c) ==
    \/ \E j \in c.jobs \cup Range(c.script) : Start(c, j)
    \/ \E f \in c.built : Build(c, f)
    \/ \E k \in DOMAIN src : Edit(k)
    \/ Kill

Next == RecipeStep \/ Around(Campaigns[camp])

Spec == Init /\ [][Next]_vars

-----------------------------------------------------------------------------
Recs   == UNION {{g} \X DOMAIN recs[g] : g \in DOMAIN recs}
Passed == {k \in Recs : Rec(k).st = "passed"}

\* Records, hashes and pointers of the engine point at what is there: a latest
\* record, a used record or a recipe's own record exists.
TypeOK ==
    /\ camp \in DOMAIN Campaigns
    /\ \A f \in Shared : files[f].seen \subseteq Recs
    /\ \A k \in Recs :
        /\ Rec(k).st \in {"absent", "running", "passed", "failed", "incomplete"}
        /\ Rec(k).g = k[1] /\ Rec(k).uses \subseteq Recs
    /\ \A g \in DOMAIN latest : latest[g] \in 0..Len(recs[g])
    /\ \A n \in DOMAIN job : job[n].idx > 0 => <<job[n].rec.g, job[n].idx>> \in Recs

\* A record that passed names only products that stem from exactly the sources
\* it is bound to, whatever is edited while it is made.
OneSource ==
    \A k \in Passed : \A f \in DOMAIN Rec(k).made :
        Changed(Rec(k).made[f], Rec(k).dig) \cap Bound(k[1], f) = {}

\* A report that passed rests on records that passed (a matrix may have been
\* resumed since: its hash then no longer matches) and on one hardware, and it
\* closes what its records left open: where they hashed the sources before the
\* run and not behind it, the report hashed them again.
ReportsCohere ==
    \A k \in Passed : \A i \in Rec(k).uses :
        /\ i \in Passed \/ i[1] \in Resumable
        /\ i[1] \in SameSource(k[1]) =>
            \A m \in Rec(k).uses :
                m[1] \in SameSource(k[1]) => "dut" \notin Changed(Rec(i).dig, Rec(m).dig)
        /\ k[1] \in Closing /\ i[1] \notin HashedLate =>
            \A f \in DOMAIN Rec(i).made : Changed(Rec(i).made[f], Rec(i).dig) = {}

\* A report over two simulators rests on one image, and what a report hashes as
\* the file of a run is what that run loaded.
OneImage ==
    \A k \in Passed : \A i \in Rec(k).uses :
        /\ k[1] \in CrossSimulator => \A m \in Rec(k).uses : Replayed(i) = Replayed(m)
        /\ \A f \in DOMAIN Rec(i).ran \cap DOMAIN Rec(k).refs : Rec(i).ran[f] = Rec(k).refs[f]

\* "Move the pointer before starting: a failed attempt must not expose an old
\* success": once an attempt has ended or made anything, latest.json does not
\* name an older one.
NoOldSuccess ==
    /\ \A k \in Recs : Rec(k).st \in {"failed", "passed"} => latest[k[1]] >= k[2]
    /\ \A n \in DOMAIN job : job[n].idx > 0 /\ DOMAIN job[n].rec.made # {} =>
        latest[job[n].rec.g] >= job[n].idx

\* What passed was judged on a log with exit status 0, a terminal marker, every
\* section right and, but for the APU, without a failure text.
CleanLog ==
    \A k \in Passed : Rec(k).log # NoLog =>
        /\ Rec(k).log.wrong = {}
        /\ k[1] \notin TranscriptOnly => Rec(k).log.exit = 0 /\ Rec(k).log.ended
        /\ k[1] \notin TranscriptOnly \cup ResultLines => ~Rec(k).log.fail
=============================================================================
