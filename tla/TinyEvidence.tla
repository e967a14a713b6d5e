---------------------------- MODULE TinyEvidence ----------------------------
(***************************************************************************)
(* The recipes of the Tiny qualification phases P1 to P10                  *)
(* (scripts/tiny_r2_baseline.py, scripts/tiny_r2_p3.py ... p10.py).        *)
(***************************************************************************)
EXTENDS EvidenceSteps

Emu(sim) == IF sim = "verilator" THEN "emu" ELSE "simv"

-----------------------------------------------------------------------------
(* P1: the retained baseline image, replayed three times per simulator.    *)

P1_configuration   == <<Try("Tiny 24 MHz macro profile")>>
P1_source_inputs   == <<Try("managed inputs clean at their lock"), Digest>>
P1_tools_identity  == <<Try("locked tools")>>
P1_vvp_identity    == <<Try("vvp beside the locked compiler")>>
P1_runtime_inputs  == <<Try("filelists of the model")>>
P1_snapshot        == <<Try("archive of the inputs")>>
P1_execute(what)   == <<Try(what)>>
P1_new_attempt(g)  == <<Mkdir(g)>>

\* Mutant: a failure text beside the pass marker is overlooked.
MutP1_parse_log ==
    [Strict({"header", "case", "axi", "ahb", "complete"}) EXCEPT !.fail = FALSE, !.ends = 1..2]

\* The pass marker may be there more than once; each family of rows must be
\* complete, in order and account for its bytes.
P1_parse_log ==
    [Strict({"header", "case", "axi", "ahb", "complete"}) EXCEPT !.ends = 1..2]

\* Mutant: the pointer moves when the attempt has succeeded.
MutP1_build_image ==
    P1_new_attempt(<<"p1", "image">>) \o <<Save>>
    \o P1_configuration \o P1_tools_identity \o P1_source_inputs \o P1_snapshot
    \o <<Compile("image")>> \o P1_execute("objcopy") \o P1_execute("symbols")
    \o <<Try("descriptors, stack headroom"), Same, Try("generated inputs unchanged"),
         Pass, Point>>

P1_build_image ==
    P1_new_attempt(<<"p1", "image">>) \o <<Point, Save>>
    \o P1_configuration \o P1_tools_identity \o P1_source_inputs \o P1_snapshot
    \o <<Compile("image")>> \o P1_execute("objcopy") \o P1_execute("symbols")
    \o <<Try("descriptors, stack headroom"), Same, Try("generated inputs unchanged"),
         Pass>>

P1_retained_image == <<Select(<<"p1", "image">>)>>

P1_validate_runs == <<Try("three repetitions, logs reparsed, identical samples")>>
P1_validate_runtime_tool == <<Try("the recorded vvp was launched")>>

P1_simulate(sim) ==
    P1_new_attempt(<<"p1", sim>>) \o <<Point, Save>>
    \o P1_retained_image \o P1_configuration \o P1_tools_identity \o P1_vvp_identity
    \o P1_source_inputs \o <<Make(Emu(sim)), Same>> \o P1_runtime_inputs \o P1_snapshot
    \o <<Hold(Emu(sim))>> \o Thrice(<<Run(P1_parse_log), Save>>)
    \o <<Same>> \o P1_validate_runs \o P1_validate_runtime_tool \o <<Again, Pass>>

\* Mutant: what the two simulators replayed is not compared.
MutP1_report ==
    <<TakeNow(<<"p1", "verilator">>), TakeNow(<<"p1", "iverilog">>), Publish(<<"p1", "report">>)>>

\* Whatever is wrong is noted and an incomplete report is written.
P1_report ==
    <<TakeNow(<<"p1", "verilator">>), TakeNow(<<"p1", "iverilog">>),
      Agree(TRUE), Publish(<<"p1", "report">>)>>

-----------------------------------------------------------------------------
(* P3: the compiler and placement experiments.                             *)

P3_execute_make(f) == <<Make(f), Try("no warning of our own")>>
P3_configuration   == <<Try("Tiny SAFE24 macro configuration")>>
P3_inputs          == P1_source_inputs
P3_new_record(g)   == P1_new_attempt(g) \o <<Point, Save>>

P3_check_layout    == <<Try("placement, alignment, stack reserve")>>
P3_check_exception_probe == <<Try("32-bit faulting load")>>

\* Mutant: the sources are not hashed again behind the compile.
MutP3_image ==
    P3_new_record(<<"p3", "image">>) \o P3_inputs \o P3_configuration
    \o P1_tools_identity \o P1_snapshot \o <<Try("locked compiler"), Compile("image")>>
    \o P1_execute("objcopy, nm, objdump, readelf, size")
    \o P3_check_exception_probe \o P3_check_layout
    \o <<Pass, Adopt("firmware")>>

P3_image ==
    P3_new_record(<<"p3", "image">>) \o P3_inputs \o P3_configuration
    \o P1_tools_identity \o P1_snapshot \o <<Try("locked compiler"), Compile("image")>>
    \o P1_execute("objcopy, nm, objdump, readelf, size")
    \o P3_check_exception_probe \o P3_check_layout
    \o <<Same, Pass, Adopt("firmware")>>

P3_parse_log ==
    [Strict({"isa", "header", "case", "axi", "ahb", "complete", "stack"})
        EXCEPT !.ends = 1..2]

\* The image must stem from the sources the model is now compiled from.
P3_validate_image == <<Select(<<"p3", "image">>)>>

P3_simulate(sim) ==
    P3_new_record(<<"p3", sim>>) \o P3_validate_image \o P3_configuration
    \o P3_inputs \o <<Current>> \o P1_tools_identity
    \o P3_execute_make(Emu(sim)) \o <<Same>> \o P1_runtime_inputs \o P1_snapshot
    \o <<Hold(Emu(sim))>> \o P1_vvp_identity
    \o Thrice(<<Check, Again, Run(P3_parse_log), Save>>)
    \o <<Try("samples deterministic"), Same, Check, Again, Pass>>

P3_check_acceptance == <<Try("the normal application passed")>>

\* The run and the image it names stem from one source.
P3_validate_simulation(sim) == <<Again, Paired, Try("launch, logs, samples")>>

\* One case of the matrix; what a resumed record has is not done again.
P3_matrix_case ==
    <<Unless(<<"p3", "image">>, 2), Call("P3_image"), Take(<<"p3", "image">>)>>
    \o P3_execute_make("emu") \o P3_check_acceptance
    \o <<Unless(<<"p3", "verilator">>, 2), Call("P3_verilator"), Take(<<"p3", "verilator">>)>>
    \o P3_validate_simulation("verilator") \o <<Save>>
    \o <<Unless(<<"p3", "iverilog">>, 2), Call("P3_iverilog"), Take(<<"p3", "iverilog">>)>>
    \o P3_validate_simulation("iverilog") \o <<Save, Pass>>

P3_matrix ==
    P3_inputs \o P1_new_attempt(<<"p3", "matrix">>) \o <<Point, Save>>
    \o P3_configuration \o P3_matrix_case

P3_matrix_resume ==
    P3_inputs \o <<Reopen(<<"p3", "matrix">>)>> \o P3_configuration \o P3_matrix_case

\* Raises without writing when the matrix is not current.
P3_report ==
    <<Take(<<"p3", "matrix">>)>> \o P3_inputs \o <<Current>>
    \o P3_check_acceptance \o <<Try("cross-simulator samples")>>
    \o <<Publish(<<"p3", "report">>)>>

-----------------------------------------------------------------------------
(* P4, P5: retained P3 images replayed on the candidate hardware.          *)

P4_parse_log == [P3_parse_log EXCEPT !.checks = @ \cup {"local", "bank"}]
P5_parse_log == [P4_parse_log EXCEPT !.checks = @ \cup {"fabric"}]

P4_inputs == P3_inputs
P5_inputs == P4_inputs
P4_compatible_hardware == <<Try("same hardware keys")>>
P5_compatible_hardware == <<Try("same hardware keys")>>
\* The reference report is hashed, and its retained executions reparsed.
P4_reference_cases == <<Adopt("reference"), Try("retained P3 cases")>>
P5_reference_cases == <<Adopt("reference"), Try("retained P4 cases")>>

\* The common body of the two replays.
ReplayBody(sim, ref, hardware, inputs, p) ==
    ref \o P3_configuration \o hardware \o inputs \o P1_tools_identity
    \o P3_execute_make(Emu(sim)) \o <<Same>> \o P1_runtime_inputs
    \o <<Hold(Emu(sim))>> \o P1_snapshot \o P1_vvp_identity
    \o <<Run(p), Save, Run(p), Save, Same, Check, Try("tools unchanged"), Pass>>

\* The pointer moves before there is a record.
P4_replay(sim) ==
    P1_new_attempt(<<"p4", sim>>) \o <<Point>>
    \o ReplayBody(sim, P4_reference_cases, P4_compatible_hardware, P4_inputs, P4_parse_log)

\* The record is written before the pointer moves.
P5_replay(sim) ==
    P1_new_attempt(<<"p5", sim>>) \o <<Save, Point>>
    \o ReplayBody(sim, P5_reference_cases, P5_compatible_hardware, P5_inputs, P5_parse_log)

P4_validate_replay(sim) == <<Take(<<"p4", sim>>), Try("provenance and logs")>>
P5_validate_replay(sim) == <<Take(<<"p5", sim>>), Try("provenance and logs")>>

P4_report ==
    P4_validate_replay("verilator") \o P4_validate_replay("iverilog")
    \o P4_inputs \o <<Current, Try("approved cases"), Agree(FALSE), Publish(<<"p4", "report">>)>>

\* Mutant: the replays may stem from other sources than there are now.
MutP5_report ==
    P5_validate_replay("verilator") \o P5_validate_replay("iverilog")
    \o P5_inputs \o <<Try("approved cases"), Agree(FALSE), Publish(<<"p5", "report">>)>>

P5_report ==
    P5_validate_replay("verilator") \o P5_validate_replay("iverilog")
    \o P5_inputs \o <<Current, Try("approved cases"), Agree(FALSE), Publish(<<"p5", "report">>)>>

-----------------------------------------------------------------------------
(* P6: gates run by Make after a capture, collected later; three kinds of  *)
(* later change are admitted, each with a document of its own.             *)

P6_parse_log ==
    [Strict({"records", "audio", "wires", "axi", "contention", "devices"})
        EXCEPT !.ends = 1..2]

P6_inputs        == <<Try("ci_smoke composition")>> \o P1_source_inputs
P6_current_tools == P1_tools_identity \o P1_vvp_identity
P6_check_model_declaration_move == <<Try("only the declaration moved")>>
P6_checked_flow(gs, f) == <<After(gs, f)>>

P6_capture ==
    <<Fresh(<<"p6", "source">>), Try("both PDKs")>> \o P6_inputs \o P1_snapshot
    \o P6_current_tools \o <<Publish(<<"p6", "source">>)>>

\* One admitted change: never overwritten, never beyond its paths.
P6_update(g, prior, must, may) ==
    <<Fresh(g)>> \o P6_inputs \o <<Moved(prior, must, may)>>
    \o P1_snapshot \o P6_current_tools \o <<Publish(g)>>

P6_capture_verification_update ==
    P6_check_model_declaration_move
    \o P6_update(<<"p6", "verification">>, <<"p6", "source">>, {"tb"}, {"tb", "tool"})
P6_capture_consumer_update ==
    P6_update(<<"p6", "consumer">>, <<"p6", "verification">>, {}, {"pub", "tool"})
P6_capture_collection_update ==
    P6_update(<<"p6", "collection">>, <<"p6", "consumer">>, {}, {"tool"})

\* check_update, check_consumer_update and check_collection_update, newest
\* first in the code.
P6_check_updates ==
    <<Chain(<<<<"p6", "source">>, <<"p6", "verification">>,
              <<"p6", "consumer">>, <<"p6", "collection">>>>,
            <<{}, {"tb", "tool"}, {"pub", "tool"}, {"tool"}>>)>>

P6_report ==
    P6_current_tools \o P6_inputs \o P6_check_updates
    \o P6_checked_flow({<<"p6", "source">>, <<"p6", "verification">>}, "simv")
    \o <<Hold("simv"), Run(P6_parse_log)>>
    \o P6_checked_flow({<<"p6", "source">>}, "emu")
    \o <<Hold("emu"), Run(P6_parse_log), Publish(<<"p6", "report">>)>>

-----------------------------------------------------------------------------
(* P7: the structural audit of a netlist.  P8: pin-level workload.         *)

P7_inspect_netlist == <<Try("clock boundaries, 38 macros, PLL")>>

P7_capture_source ==
    P1_source_inputs \o <<Fresh(<<"p7", "source">>)>> \o P1_tools_identity
    \o P1_snapshot \o <<Publish(<<"p7", "source">>)>>

P7_verify_source == P1_source_inputs \o <<Take(<<"p7", "source">>), Current>>

\* The audit replaces an older one; a failing audit leaves that in place.
P7_audit_netlist ==
    <<Try("consumed configuration"), Adopt("netlist"), Digest>>
    \o P7_inspect_netlist \o <<Publish(<<"p7", "audit">>)>>

P7_verify_netlist ==
    <<Try("consumed configuration"), Digest, Take(<<"p7", "audit">>), Current>>

P8_measurements ==
    [Strict({"result", "profiles", "windows", "accounting"})
        EXCEPT !.exit = FALSE, !.ends = 1..2]

P8_source_inputs == P1_source_inputs

P8_capture ==
    <<Fresh(<<"p8", "source">>)>> \o P8_source_inputs \o P1_runtime_inputs
    \o <<Adopt("firmware"), Adopt("emu")>> \o P1_tools_identity \o P1_snapshot
    \o <<Publish(<<"p8", "source">>)>>

\* The caller checks the exit status that the parser does not.
P8_report ==
    <<Fresh(<<"p8", "report">>)>> \o P8_source_inputs
    \o <<Take(<<"p8", "source">>), Current, Try("explicit P8 configuration"),
         After({<<"p8", "source">>}, "run"), Try("this command and log"),
         Run([P8_measurements EXCEPT !.exit = TRUE]), Hold("run"),
         Publish(<<"p8", "report">>)>>

-----------------------------------------------------------------------------
(* P9: one fresh build and one execution, never retried or overwritten.    *)

P9_recovery_measurements == {"cases", "terminal", "diagnostics", "board"}
P9_measurements(workload) ==
    Strict(IF workload = "RECOVERY" THEN P9_recovery_measurements
           ELSE {"terminal", "frame", "pio", "counts", "observation"})
P9_require_absent_outputs == <<Absent("firmware"), Absent("emu")>>
P9_prepare_build == P9_require_absent_outputs
P9_capture_build == <<Same, Hold("firmware"), Hold("emu")>>
P9_validate_run(workload) ==
    <<Same, Check, Run(P9_measurements(workload)), Try("launch flags of the workload")>>

P9_run_campaign(workload) ==
    <<Try("variant of this timestamp")>> \o P9_require_absent_outputs
    \o <<Fresh(<<"p9", "assessment">>), Mkdir(<<"p9", "assessment">>), Point, Save,
         Try("tools")>> \o P1_execute("generate") \o P1_configuration
    \o P1_source_inputs \o P9_prepare_build \o P1_snapshot
    \o <<Make("firmware"), Make("emu")>> \o P9_capture_build
    \o <<Try("tools unchanged")>> \o P9_validate_run(workload)
    \o <<Try("tools unchanged"), Pass>>

-----------------------------------------------------------------------------
(* P10: stages of one campaign, each executed once, collected with gaps.   *)

P10_require_terminal == Strict({})
P10_check_observations == {"bus", "concurrency"}
P10_camera_measurements ==
    Strict({"result", "histogram", "phases", "dma", "sdio", "fifo"}
           \cup P10_check_observations)
P10_audio_measurements ==
    [P6_parse_log EXCEPT !.ends = P10_require_terminal.ends,
                         !.checks = @ \cup P10_check_observations]
P10_sources == P1_source_inputs
P10_run_make(f) == <<Make(f), Try("no warning of our own")>>

\* Identities before the run, the same files after it.
P10_simulate(f, p) == <<Hold(f), Run(p), Check>>

P10_replay(stage) ==
    (IF stage = "matched" THEN <<Absent("emu")>> \o P10_run_make("emu")
     ELSE <<Take(<<"p10", "matched">>), Current, Try("ICS55 only")>>)
    \o P1_runtime_inputs \o <<Adopt("reference")>> \o P5_compatible_hardware
    \o P10_simulate("emu", P5_parse_log) \o <<Save>> \o P1_runtime_inputs

P10_application(f, p) ==
    <<Absent(f)>> \o P10_run_make(f) \o <<Try("stack headroom")>>
    \o P1_runtime_inputs \o P10_simulate(f, p)

P10_backend ==
    <<Absent("netlist"), Try("lint")>> \o P10_run_make("netlist")
    \o P1_vvp_identity \o P10_run_make("simv") \o <<Hold("simv")>>
    \o P1_runtime_inputs \o <<Run(P10_require_terminal), Check, Try("sta"),
    Run(P10_require_terminal), Hold("netlist")>>

P10_stage(stage) ==
    CASE stage \in {"matched", "software"} -> P10_replay(stage)
      [] stage = "audio"   -> P10_application("emu-audio", P10_audio_measurements)
      [] stage = "camera"  -> P10_application("emu-camera", P10_camera_measurements)
      [] stage = "backend" -> P10_backend

P10_main(stage) ==
    P10_sources \o <<Resume(<<"p10", stage>>), Mkdir(<<"p10", stage>>), Point, Save>>
    \o P1_tools_identity \o P1_snapshot \o <<Save>> \o P10_stage(stage)
    \o <<Same, Pass>>

\* Only the collector itself may have changed since a stage ran.
P10_source_delta == {"tool"}

P10_report_stage(stages) ==
    P10_sources \o [n \in 1..Len(stages) |-> TakeDelta(<<"p10", stages[n]>>, P10_source_delta)]
    \o <<Publish(<<"p10", "report">>)>>

-----------------------------------------------------------------------------
(* P2 and ICS55-P1: sources captured, netlists built by Make, collected.   *)

P2_source_inputs    == P1_source_inputs
P2_generated_inputs == <<Try("generated Tiny files")>>
P2_require_variant  == <<Try("24 MHz ci_smoke on IHP130")>>
P2_candidate_sdc    == <<Try("one baseline system clock, a frozen rate")>>
P2_timing_metrics   == <<Try("four finite measurements")>>
P2_reset_loads      == <<Try("reset drivers distinct and complete")>>
P2_path_slack       == <<Try("a constrained path")>>

\* The identity is written, then the pointer moves; one without the other is
\* never looked at.
P2_capture ==
    P2_require_variant \o P2_source_inputs \o P2_generated_inputs
    \o P1_tools_identity \o P1_snapshot \o <<Publish(<<"p2", "inputs">>)>>

\* The netlist was built after the capture of the sources there are now.
P2_consumed_files == <<After({<<"p2", "inputs">>}, "netlist"), Hold("netlist")>>

\* Each of the analysed points is one launch; one stands for them.
P2_run ==
    P2_require_variant \o P1_new_attempt(<<"p2", "feasibility">>) \o <<Point>>
    \o <<Take(<<"p2", "inputs">>)>> \o P2_source_inputs \o P2_generated_inputs \o <<Current>>
    \o <<Try("baseline artifacts")>> \o P2_consumed_files
    \o P2_candidate_sdc \o <<Run([Strict({}) EXCEPT !.ends = 1..2])>> \o P2_timing_metrics
    \o P2_path_slack \o P2_reset_loads \o <<Save, Same, Check, Pass>>

Ics_verify_locked_views == <<Try("cached views match the locked archives")>>
Ics_expand_netlist      == <<Try("no conflicting constants")>>
Ics_inspect_clock_source == <<Try("SYS is REF24 through pad and buffers")>>
Ics_inspect_netlist ==
    Ics_expand_netlist \o <<Try("38 macros, one PLL, parked")>> \o Ics_inspect_clock_source
Ics_check_configuration == <<Try("consumed configuration")>>

Ics_capture ==
    P1_new_attempt(<<"ics", "inputs">>) \o <<Point, Save>> \o P1_source_inputs
    \o Ics_verify_locked_views \o P1_snapshot \o P1_tools_identity \o <<Same, Pass>>

Ics_audit_netlist ==
    Ics_check_configuration \o Ics_inspect_netlist
    \o <<Adopt("netlist"), Publish(<<"ics", "audit">>)>>

\* The audit must be about the netlist there is now.
Ics_verify_netlist == Ics_check_configuration \o <<Take(<<"ics", "audit">>)>>

Ics_report ==
    <<Mkdir(<<"ics", "report">>), Point, Save, Take(<<"ics", "inputs">>), Digest, Current,
      After({<<"ics", "inputs">>}, "netlist"), After({<<"ics", "inputs">>}, "sta")>>
    \o Ics_verify_netlist
    \o <<Hold("netlist"), Run([Strict({}) EXCEPT !.ends = 1..2])>>
    \o P2_timing_metrics \o P2_path_slack \o <<Pass>>
=============================================================================
