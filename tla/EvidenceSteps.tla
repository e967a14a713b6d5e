--------------------------- MODULE EvidenceSteps ---------------------------
(***************************************************************************)
(* The vocabulary of the qualification scripts (scripts/tiny_r2_*.py and   *)
(* their siblings).  Each script is a recipe: a sequence of steps that     *)
(* read the sources, run commands, hash files, read the records of other   *)
(* recipes and in the end write a record of their own.  A step that raises *)
(* ends the recipe; EvidenceFlow says what that leaves on the disk.        *)
(***************************************************************************)
EXTENDS Naturals, Sequences, FiniteSets

\* Anything that may raise and changes nothing: a configuration, tool or
\* layout check, a command whose products stay in the attempt directory.
Try(what)      == [op |-> "try", what |-> what]
\* The same, where a failure is noted as a gap of the report.
Doubt(what)    == [op |-> "doubt", what |-> what]
\* new_attempt: a fresh directory, still without a record.
Mkdir(g)       == [op |-> "mkdir", g |-> g]
\* The directory of a stage, at a fixed place: refused when it exists.  "keep":
\* a record is written there however the stage ends.
Claim(g, keep) == [op |-> "claim", g |-> g, keep |-> keep]
\* latest.json of the group now names this attempt.
Point          == [op |-> "point"]
\* dump(record): the record in memory goes to the disk.
Save           == [op |-> "save"]
\* record["status"] = "passed", in memory; "incomplete" if a gap was noted.
Pass           == [op |-> "pass"]
\* The finished document is written over its fixed path.
Publish(g)     == [op |-> "publish", g |-> g]
\* "never overwrite": refused when the document exists.
Fresh(g)       == [op |-> "fresh", g |-> g]
\* "fresh outputs required": refused when the build product exists.
Absent(f)      == [op |-> "absent", f |-> f]
\* before = inputs(): the sources are hashed, or those of some classes.
DigestOf(cs)   == [op |-> "digest", of |-> cs]
Digest         == DigestOf({"dut", "tb", "pub", "tool"})
\* before != inputs(): the sources are hashed again and compared.
Same           == [op |-> "same"]
\* A product compiled into the attempt directory.
Compile(f)     == [op |-> "compile", f |-> f]
\* A product built by Make in the shared variant directory.
Make(f)        == [op |-> "make", f |-> f]
\* artifact(path) of such a product, as the thing the record is about.
Hold(f)        == [op |-> "hold", f |-> f]
\* The same for a file the recipe did not build from its digest.
Adopt(f)       == [op |-> "adopt", f |-> f]
\* check_artifact on everything held in the shared directory.
Check          == [op |-> "check"]
\* A record of group g is read and validated: the one latest.json names, or
\* one the caller selects.
Take(g)        == [op |-> "take", g |-> g, pick |-> FALSE]
Select(g)      == [op |-> "take", g |-> g, pick |-> TRUE]
\* As Take, where its sources must be those of this moment and a failure is
\* noted as a gap of the report.
TakeNow(g)     == [op |-> "takenow", g |-> g]
\* As Take, where its sources may differ from the digest in the classes "may"
\* and a failure is noted as a gap.
TakeDelta(g, may) == [op |-> "takedelta", g |-> g, may |-> may]
\* As Take, where nothing but the status is read; "soft" notes a gap.
Glance(g, soft) == [op |-> "glance", g |-> g, soft |-> soft]
\* The command that is about to run loads product f.
Load(f)        == [op |-> "load", f |-> f]
\* Product f is not younger than the start of the newest attempt of g; else a
\* gap is noted.
Older(f, g)    == [op |-> "older", f |-> f, g |-> g]
\* Product f of the attempt of g, passed or not, stands for this attempt too,
\* if the sources differ only in the classes "may" and f would be the same.
Borrow(g, f, may) == [op |-> "borrow", g |-> g, f |-> f, may |-> may]
\* The records taken stem from the sources of the digest.
Current        == [op |-> "current"]
\* The records taken stem from the same sources as each other.
Paired         == [op |-> "paired"]
\* The records taken are validated once more.
Again          == [op |-> "again"]
\* The records taken agree on what they replayed; "soft" notes a gap.
Agree(soft)    == [op |-> "agree", soft |-> soft]
\* A command runs, its output is judged by parser p.
Run(p)         == [op |-> "run", p |-> p]
\* The same, where a failure is noted as a gap.
Weigh(p)       == [op |-> "weigh", p |-> p]
\* The same, where the verdict is written as a record of g of its own.
Result(g, p)   == [op |-> "result", g |-> g, p |-> p]
\* The newest record of g passed with the digest of this recipe, but for the
\* classes "may", where it is given the new one: it is used and the next n
\* steps are skipped.
Reuse(g, may, n) == [op |-> "reuse", g |-> g, may |-> may, n |-> n]
\* The same output is judged once more, by further checks.
Judge(checks)  == [op |-> "judge", checks |-> checks]
\* The build product is younger than the newest records of the groups gs.
After(gs, f)   == [op |-> "after", gs |-> gs, f |-> f]
\* An existing record of g ends the recipe: reused or refused.
Resume(g)      == [op |-> "resume", g |-> g]
\* The record of g is taken up again if its sources are those of the digest.
Reopen(g)      == [op |-> "reopen", g |-> g]
\* A record of g is already taken: the next n steps are skipped.
Unless(g, n)   == [op |-> "unless", g |-> g, n |-> n]
\* Another recipe runs to its end in a process of its own.
Call(j)        == [op |-> "call", j |-> j]
\* The digest differs from that of g in all of "must" and only in "may".
Moved(g, must, may) == [op |-> "moved", g |-> g, must |-> must, may |-> may]
\* The documents gs explain, one admitted change after the other, how the
\* first of them led to the digest.
Chain(gs, may) == [op |-> "chain", gs |-> gs, may |-> may]

-----------------------------------------------------------------------------
\* What a run leaves: exit status, count of terminal pass markers, a failure
\* text, and the sections of its measurements that are missing or wrong (one
\* fault at a time).
Logs(sections) ==
    [exit : {0, 1}, ends : 0..2, fail : BOOLEAN,
     wrong : {{}} \cup {{s} : s \in sections}]

\* A parser is what it insists on.
Strict(checks) == [exit |-> TRUE, fail |-> TRUE, ends |-> {1}, checks |-> checks]

Accepts(p, log) ==
    /\ p.exit => log.exit = 0
    /\ p.fail => ~log.fail
    /\ log.ends \in p.ends
    /\ log.wrong \cap p.checks = {}

Thrice(s) == s \o s \o s
=============================================================================
