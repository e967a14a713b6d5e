--------------------------- MODULE BlockEvidence ---------------------------
(***************************************************************************)
(* The recipes of the standalone block flows: SPI (scripts/spi_p1.py ...   *)
(* p4.py), PPA-lite (ppalite_p1.py, ppalite_p2.py), PIO-lite               *)
(* (piolite_p2.py) and the crypto block (crypto_p0.py ... p2.py).          *)
(*                                                                         *)
(* A stage of a block flow owns a directory that must not exist yet.  The  *)
(* stages lint, rtl, formal and synth stand alone, netsim and sta rest on  *)
(* the netlist of synth, report rests on all of them.                      *)
(***************************************************************************)
EXTENDS EvidenceSteps

Reported == <<"lint", "rtl-verilator", "rtl-iverilog", "formal", "synth", "netsim", "sta">>

TakeAll(phase, stages) == [n \in 1..Len(stages) |-> Take(<<phase, stages[n]>>)]

-----------------------------------------------------------------------------
(* SPI.                                                                    *)

Spi1_inputs          == <<Digest>>
Spi1_execute(what)   == <<Try(what)>>
Spi1_require_pass    == Strict({})
Spi1_formal_model_counts == <<Try("an active property of the mode")>>
Spi1_cover_witness_steps == <<Try("a witness for the whole window")>>
Spi1_tool_path       == <<Try("tool installed")>>
Spi1_python_tool_directory == <<Try("no module beside the tool shadows its own")>>
Spi1_proof_tool_components ==
    Spi1_python_tool_directory \o <<Try("one Yosys installation")>>
Spi1_external_inputs == Spi1_tool_path \o Spi1_proof_tool_components
Spi1_netlist_adapter == <<Try("split ports contiguous, one direction")>>

\* A record that passed, from these sources and tools, with its artifacts.
Spi1_checked_record(stage) == <<Take(<<"spi1", stage>>), Current>>

Spi1_simulate(f) ==
    Spi1_execute("convert") \o <<Compile(f)>>
    \o Spi1_execute("launch") \o <<Run(Spi1_require_pass)>>

Spi1_synth ==
    <<Compile("netlist")>> \o Spi1_execute("yosys")
    \o <<Try("library cells only, no latch, FIFO storage")>>

\* A successful subtask of an earlier formal campaign, which itself may have
\* failed: same sources but for the orchestration, same converted model.
Spi1_reuse_formal_task ==
    <<Borrow(<<"spi1", "formal-old">>, "proof", {"tool"})>> \o Spi1_formal_model_counts

Spi1_formal(reuse) ==
    (IF reuse THEN Spi1_reuse_formal_task
     ELSE <<Compile("proof")>> \o Spi1_execute("sby") \o Spi1_formal_model_counts)
    \o <<Compile("cover")>> \o Spi1_execute("sby cover") \o Spi1_formal_model_counts
    \o Spi1_cover_witness_steps

Spi1_stage(stage) ==
    CASE stage = "lint"        -> <<Compile("lint")>>
      [] stage = "rtl-verilator" -> Spi1_simulate("model")
      [] stage = "rtl-iverilog"  -> Spi1_simulate("model")
      [] stage = "formal"      -> Spi1_formal(TRUE)
      [] stage = "formal-old"  -> Spi1_formal(FALSE)
      [] stage = "synth"       -> Spi1_synth
      [] stage = "netsim"      -> Spi1_checked_record("synth") \o Spi1_netlist_adapter
                                  \o Spi1_simulate("model")
      [] stage = "sta"         -> Spi1_checked_record("synth") \o Spi1_execute("sta")
      [] stage = "report"      -> TakeAll("spi1", Reported) \o <<Current>>

Spi1_main(stage) ==
    <<Try("Tiny profile")>> \o Spi1_inputs \o <<Claim(<<"spi1", stage>>, TRUE)>>
    \o Spi1_external_inputs \o <<Save>> \o Spi1_stage(stage)
    \o <<Same>> \o Spi1_external_inputs \o <<Pass>>

\* SPI-P2 hashes its sources but never again, and writes a record only when
\* it passed; the report stage checks nothing.
Spi2_main(stage) ==
    <<Try("Tiny profile"), Claim(<<"spi2", stage>>, FALSE), Digest>>
    \o (IF stage = "rtl" THEN <<Compile("model"), Run([Strict({}) EXCEPT !.ends = 1..2, !.fail = FALSE])>>
        ELSE IF stage = "lint" THEN <<Try("lint")>> ELSE <<>>)
    \o <<Publish(<<"spi2", stage>>)>>

\* SPI-P3 keeps the exit status of its tests and no identity of the sources.
Spi3_main(stage) ==
    <<Try("Tiny profile"), Claim(<<"spi3", stage>>, TRUE), Try("pytest"), Pass>>

Spi4_reassemble_progress == {"progress"}
Spi4_check_b_records ==
    {"capture", "sd", "measurements", "stalls", "bus", "concurrency", "result"}

\* The transcript alone is judged: neither the exit status nor a marker.
Spi4_check_log ==
    [exit |-> FALSE, fail |-> FALSE, ends |-> 0..2,
     checks |-> Spi4_reassemble_progress \cup Spi4_check_b_records
                \cup {"windows", "panel", "commands", "violations"}]

Spi4_focused == <<Claim(<<"spi4", "rtl">>, TRUE), Try("pytest"), Pass>>

\* The check stage may be run again over its own record.
Spi4_main(stage) ==
    <<Try("Tiny profile")>>
    \o (IF stage = "check" THEN <<Run(Spi4_check_log), Publish(<<"spi4", "check">>)>>
        ELSE Spi4_focused)

-----------------------------------------------------------------------------
(* PPA-lite P1: the block.  P2: the block with its camera route.           *)

Ppa1_inputs        == <<Digest>>
Ppa1_tool_inputs   == <<Try("tools installed")>>
Ppa1_execute(what) == <<Try(what)>>
Ppa1_require_pass  == Strict({})
Ppa1_vector_file   == <<Try("97 vectors")>>
Ppa1_simulate ==
    Ppa1_vector_file \o <<Compile("model")>> \o Ppa1_execute("launch")
    \o <<Run(Ppa1_require_pass)>>
\* Each vector once, in order; each requirement's marker once over all cases.
Ppa1_require_vector_execution == {"vectors"}
Ppa1_check_coverage == <<Judge(Ppa1_require_vector_execution \cup {"coverage"})>>
Ppa1_assertion_digest == <<Try("named assertions")>>
Ppa1_formal_task ==
    <<Compile("proof")>> \o Ppa1_execute("sby") \o <<Try("PASS, active properties, witnesses")>>
    \o Ppa1_assertion_digest
Ppa1_formal ==
    Thrice(Ppa1_formal_task) \o <<Try("a deleted assertion is noticed")>>
Ppa1_storage_geometry == <<Try("two FIFOs")>>
Ppa1_synth ==
    <<Compile("netlist")>> \o Ppa1_execute("yosys")
    \o <<Try("library cells only, no latch")>> \o Ppa1_storage_geometry
Ppa1_netlist_adapter == <<Try("split ports contiguous, one direction")>>
Ppa1_netsim ==
    Ppa1_netlist_adapter \o Ppa1_vector_file \o <<Compile("model")>>
    \o Ppa1_execute("launch")
    \o <<Run(Ppa1_require_pass), Judge(Ppa1_require_vector_execution)>>
Ppa1_checked_record(stage) == <<Take(<<"ppa1", stage>>), Current>>

Ppa1_stage(stage) ==
    CASE stage = "lint"   -> <<Compile("lint")>>
      [] stage \in {"rtl-verilator", "rtl-iverilog"} -> Ppa1_simulate \o Ppa1_check_coverage
      [] stage = "formal" -> Ppa1_formal
      [] stage = "synth"  -> Ppa1_synth
      [] stage = "netsim" -> Ppa1_checked_record("synth") \o Ppa1_netsim
      [] stage = "sta"    -> Ppa1_checked_record("synth") \o Ppa1_execute("sta")
      [] stage = "report" -> TakeAll("ppa1", Reported) \o <<Current>>

Ppa1_main(stage) ==
    <<Try("Tiny profile"), Claim(<<"ppa1", stage>>, TRUE)>> \o Ppa1_inputs \o <<Save>>
    \o Ppa1_tool_inputs \o Ppa1_stage(stage) \o <<Same, Pass>>

Ppa2_inputs        == <<Digest>>
Ppa2_tool_inputs   == <<Try("tools installed")>>
Ppa2_execute(what) == <<Try(what)>>
Ppa2_require_pass  == Strict({})
\* Eighteen cases, each its own run; two stand for them.
Ppa2_simulate ==
    <<Compile("model")>> \o Ppa2_execute("launch")
    \o <<Run(Ppa2_require_pass), Run(Ppa2_require_pass)>>
Ppa2_check_coverage == <<Judge({"coverage"})>>
Ppa2_assertion_digest == <<Try("named assertions")>>
Ppa2_cover_digest     == <<Try("named covers")>>
Ppa2_formal_task ==
    <<Compile("proof")>> \o Ppa2_execute("sby")
    \o <<Try("PASS, active properties, five witnesses")>>
    \o Ppa2_assertion_digest \o Ppa2_cover_digest
Ppa2_formal ==
    Ppa2_formal_task \o Ppa2_formal_task \o <<Try("a deleted assertion is noticed")>>
Ppa2_storage_geometry == <<Try("two FIFOs")>>
Ppa2_synth ==
    <<Compile("netlist")>> \o Ppa2_execute("yosys")
    \o <<Try("library cells only, no latch")>> \o Ppa2_storage_geometry
Ppa2_netlist_adapter == <<Try("split ports contiguous, one direction")>>
Ppa2_netsim ==
    Ppa2_netlist_adapter \o <<Compile("model")>> \o Ppa2_execute("launch")
    \o <<Run(Ppa2_require_pass), Run(Ppa2_require_pass)>>
Ppa2_checked_record(stage) == <<Take(<<"ppa2", stage>>), Current>>

Ppa2_stage(stage) ==
    CASE stage = "lint"   -> <<Compile("lint")>>
      [] stage \in {"rtl-verilator", "rtl-iverilog"} -> Ppa2_simulate \o Ppa2_check_coverage
      [] stage = "formal" -> Ppa2_formal
      [] stage = "synth"  -> Ppa2_synth
      [] stage = "netsim" -> Ppa2_checked_record("synth") \o Ppa2_netsim
      [] stage = "sta"    -> Ppa2_checked_record("synth") \o Ppa2_execute("sta")
      [] stage = "report" -> TakeAll("ppa2", Reported) \o <<Current>>

Ppa2_main(stage) ==
    <<Try("Tiny profile"), Claim(<<"ppa2", stage>>, TRUE)>> \o Ppa2_inputs \o <<Save>>
    \o Ppa2_tool_inputs \o Ppa2_stage(stage) \o <<Same, Pass>>

-----------------------------------------------------------------------------
(* PIO-lite.                                                               *)

Pio_inputs        == <<Digest>>
Pio_tool_inputs   == <<Try("tools installed")>>
Pio_execute(what) == <<Try(what)>>
Pio_require_pass  == Strict({})
Pio_vector_file   == Pio_execute("vectors of the reference model")
\* The exhaustive case also has to count every legal and rejected word.
Pio_simulate ==
    Pio_vector_file \o <<Compile("model")>> \o Pio_execute("launch")
    \o <<Run(Pio_require_pass), Judge({"exhaustive"})>>
Pio_check_coverage == <<Judge({"coverage"})>>
Pio_validate_assertions == <<Try("the expected assertions")>>
Pio_validate_cover      == <<Try("the expected covers, each with a witness")>>
Pio_formal_task ==
    <<Compile("proof")>> \o Pio_execute("sby") \o <<Try("PASS, active properties")>>
    \o Pio_validate_assertions \o Pio_validate_cover
Pio_formal_selfcheck == <<Try("a deleted assertion and a lost witness are noticed")>>
Pio_formal == Thrice(Pio_formal_task) \o Pio_formal_selfcheck
Pio_synth ==
    <<Compile("netlist")>> \o Pio_execute("yosys")
    \o <<Try("library cells only, no latch, two machines, four FIFOs")>>
Pio_netlist_adapter == <<Try("split ports contiguous, one direction")>>
Pio_netsim ==
    Pio_netlist_adapter \o <<Compile("model")>> \o Pio_execute("launch")
    \o <<Run(Pio_require_pass)>>
Pio_checked_record(stage) == <<Take(<<"pio", stage>>), Current>>

Pio_stage(stage) ==
    CASE stage = "lint"   -> <<Compile("lint")>>
      [] stage \in {"rtl-verilator", "rtl-iverilog"} -> Pio_simulate \o Pio_check_coverage
      [] stage = "formal" -> Pio_formal
      [] stage = "synth"  -> Pio_synth
      [] stage = "netsim" -> Pio_checked_record("synth") \o Pio_netsim
      [] stage = "sta"    -> Pio_checked_record("synth") \o Pio_execute("sta")
      [] stage = "report" -> TakeAll("pio", Reported) \o <<Current>>

Pio_main(stage) ==
    <<Try("Tiny profile"), Claim(<<"pio", stage>>, TRUE)>> \o Pio_inputs \o <<Save>>
    \o Pio_tool_inputs \o Pio_stage(stage) \o <<Same, Pass>>

-----------------------------------------------------------------------------
(* The crypto block.  Records lie at fixed paths and are replaced.         *)

Replace(g) == <<Mkdir(g), Point, Save>>

Cry0_identity  == <<Try("ihp130 profile"), Digest>>
Cry0_execute(what) == <<Try(what)>>
Cry0_parity    == <<Try("offsets and fields of the V1 registers")>>
Cry0_constants ==
    <<Try("image matches the oracle, every corruption rejected")>>
    \o Cry0_identity \o <<Publish(<<"cry0", "constants">>)>>
Cry0_marker    == [Strict({}) EXCEPT !.ends = 1..2]

\* Seven cases, two stand for them.  The sources are not hashed again.
Cry0_rtl ==
    Cry0_identity \o Cry0_parity \o Replace(<<"cry0", "functional">>)
    \o <<Compile("model")>> \o Cry0_execute("compile") \o <<Run(Cry0_marker), Save,
         Compile("model")>> \o Cry0_execute("compile") \o <<Run(Cry0_marker), Save, Pass>>
Cry0_inventory == <<Try("no recursive hierarchy")>>
Cry0_synth ==
    Cry0_identity \o <<Try("frozen RTL, macros, balanced")>> \o Replace(<<"cry0", "synthesis">>)
    \o <<Compile("netlist")>> \o Cry0_execute("yosys") \o Cry0_inventory \o <<Pass>>

\* A stage from other sources is stale: a gap, and the command fails.
Cry0_report_all ==
    Cry0_identity
    \o <<TakeNow(<<"cry0", "constants">>), TakeNow(<<"cry0", "functional">>),
         TakeNow(<<"cry0", "synthesis">>)>>
    \o Cry0_inventory \o <<Publish(<<"cry0", "report">>)>>
Cry0_main(body) == <<Try("frozen V1 checkout")>> \o body

Cry1_inputs          == <<Try("image matches the oracle")>>
Cry1_execute(what)   == <<Try(what)>>
Cry1_firmware_inputs == <<Digest>>
Cry1_firmware_runtime_inputs == <<Try("generated core and memory models")>>
Cry1_firmware_run ==
    <<Try("profile of the kind")>> \o Cry1_firmware_inputs \o Replace(<<"cry1", "firmware">>)
    \o <<Make("firmware"), Run(Cry0_marker), Same>> \o Cry1_firmware_runtime_inputs
    \o <<Hold("firmware"), Pass>>
Cry1_checked_firmware == <<TakeNow(<<"cry1", "firmware">>)>>

\* The gates run first, the sources are hashed afterwards.
Cry1_quality ==
    <<Try("formatting"), Compile("gates"), Try("ruff, policy, host tests")>>
    \o Cry1_firmware_inputs \o <<Publish(<<"cry1", "quality">>)>>

Cry1_rtl ==
    Cry1_inputs \o Cry1_firmware_inputs \o Replace(<<"cry1", "functional">>)
    \o <<Compile("model")>> \o Cry1_execute("compile") \o <<Run(Cry0_marker), Pass>>

\* Each of the five proofs compares its own sources before and after.
Cry1_formal ==
    Replace(<<"cry1", "formal">>) \o Cry1_firmware_inputs \o <<Compile("proof")>>
    \o Cry1_execute("sby") \o <<Try("PASS"), Same, Pass>>
Cry1_synth ==
    <<Try("macros, balanced")>> \o Cry1_firmware_inputs \o Replace(<<"cry1", "synthesis">>)
    \o <<Compile("netlist")>> \o Cry1_execute("yosys") \o <<Try("six macros, no ROM"), Pass>>

\* The report is "running" until every gate is judged; a gap fails it.
Cry1_report_all ==
    Cry1_firmware_inputs \o Replace(<<"cry1", "report">>)
    \o <<TakeNow(<<"cry1", "functional">>), TakeNow(<<"cry1", "formal">>),
         TakeNow(<<"cry1", "synthesis">>)>>
    \o Cry1_checked_firmware \o <<TakeNow(<<"cry1", "quality">>), Pass>>

\* Only the status of what it collects is read, and the candidate is clean.
Cry2_artifact(g) == <<Glance(g, TRUE)>>
Cry2_report ==
    <<Digest>> \o Cry2_artifact(<<"cry0", "report">>) \o Cry2_artifact(<<"cry1", "report">>)
    \o Cry2_artifact(<<"cry1", "synthesis">>) \o <<Publish(<<"cry2", "report">>)>>
=============================================================================
