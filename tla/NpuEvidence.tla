---------------------------- MODULE NpuEvidence ----------------------------
(***************************************************************************)
(* The recipes of the NPU qualification: P0 (scripts/qualify_npu_p0.py),   *)
(* P1 (run_npu_p1_flow.py), P5 (qualify_npu_p5.py, npu_p5_report.py) and   *)
(* P6 (npu_p6_*.py, run_npu_p6_*.py).                                      *)
(*                                                                         *)
(* P0 and P5 hash their sources first and never again: it is the report    *)
(* that hashes them once more.  The P6 recipes hash after the runs, and    *)
(* not the hardware, for which the Git revision stands.                    *)
(***************************************************************************)
EXTENDS EvidenceSteps

-----------------------------------------------------------------------------
(* P0: executor and reference against the framework, over the corpus.      *)

Npf_checked_sources == <<Try("oracle sources match the lock")>>
Npf_build_oracle    == Npf_checked_sources \o <<Compile("oracle")>>
\* The graph goes out without the compiler's lowering; each case is one run of
\* the framework, whose layers must come back complete.
Npf_encode_graph    == <<Try("every padding and activation known")>>
Npf_FrameworkOracle == Npf_encode_graph
Npf_decode_outputs  == <<Try("layers complete, none left over")>>
Npf_evaluate        == <<Try("framework exit code")>> \o Npf_decode_outputs
Npm_kws_inputs      == <<Try("1000 ordered features")>>
Npm_vww_rows        == <<Try("1000 images with their inputs")>>
Npm_build_kws_manifest == Npm_kws_inputs
Npm_build_vww_manifest == Npm_vww_rows
Npm_main ==
    Npm_build_kws_manifest \o Npm_build_vww_manifest
    \o <<Try("manifests are those the corpus yields")>>
Np0__check_assets   == <<Try("reference assets installed")>> \o Npm_main
Np0__load_kws_corpus == <<Try("1000 KWS inputs")>>
Np0__load_vww_corpus == <<Try("1000 VWW inputs")>>
\* Neither Python path may certify the other: both must equal the framework.
Np0_compare_layers  == {"executor", "reference"}
Np0__qualify_input  == Np0_compare_layers
Np0__qualify_model  ==
    Npf_FrameworkOracle \o Npf_evaluate \o <<Run([exit |-> FALSE, fail |-> FALSE, ends |-> 0..2, checks |-> Np0__qualify_input]), Save>>

\* The verdict is BLOCKED on the disk from the start, then INCOMPLETE; a
\* capped run passes no more than a smoke test.
Np0_main(limited) ==
    <<DigestOf({"tool"}), Mkdir(<<"npu0", "qualification">>), Point, Save>>
    \o Np0__check_assets \o Npf_build_oracle
    \o Np0__load_kws_corpus \o Np0__load_vww_corpus \o <<Save>>
    \o <<Compile("deployment")>> \o Np0__qualify_model
    \o (IF limited THEN <<>> ELSE <<Pass>>)

-----------------------------------------------------------------------------
(* P5: the RTL against the executor, and the report over all of it.        *)

Np5_tool_identity == <<Try("simulators identified")>>
Np5_samples       == <<Try("ten frozen inputs of each model")>>
Np5_emit_case     == <<Try("deployment fits the memory"), Compile("cases")>>
Np5_rejected_markers == [Strict({}) EXCEPT !.ends = 1..2]

Np5_main ==
    <<DigestOf({"dut", "tool"}), Mkdir(<<"npu5", "rtl">>), Point, Save>>
    \o Np5_samples \o Np5_emit_case \o Np5_tool_identity
    \o <<Compile("model"), Run(Np5_rejected_markers), Save,
         Compile("model"), Run(Np5_rejected_markers), Save, Pass>>

\* The simulation on the bare metal, by run_flow.py and check_simulation.py:
\* the result names the command, not the contents of what it loads.
Np5_simulate(kind) ==
    <<Mkdir(<<"npu5", kind>>), Point, Save, Load(kind), Run(Np5_rejected_markers), Pass>>

\* Whatever fails, a report with the verdict FAIL is written.
Np5r_validate_deployment == <<Doubt("files of the deployment are those of its manifest")>>
Np5r_same_deployment     == <<Doubt("LP and HP run the qualified deployment")>>
Np5r_validate_build      == <<Doubt("configuration of the build")>>
Np5r_validate_variant_path == <<Doubt("manifest lies in the variant of its digest")>>
Np5r_validate_required_command == <<Doubt("the gate named is the gate run")>>
Np5r_validate_p0         == <<TakeNow(<<"npu0", "qualification">>)>>
Np5r_validate_implementation == <<TakeNow(<<"npu5", "rtl">>)>>
Np5r_validate_rtl_cases  == <<Doubt("twenty frozen cases, artifacts unchanged")>>
Np5r_validate_simulator_records == <<Doubt("each case passed on each simulator")>>
Np5r_validate_rtl ==
    Np5r_validate_implementation \o Np5r_validate_rtl_cases \o Np5r_validate_simulator_records
\* What is hashed as run must not be younger than the start of the run.
Np5r_firmware_identity(kind) == <<Older(kind, <<"npu5", kind>>), Adopt(kind)>>
Np5r_passed_result(kind) == <<Glance(<<"npu5", kind>>, TRUE)>>
Np5r_validate_simulation_evidence(kind) ==
    Np5r_passed_result(kind) \o <<Doubt("command, log and check belong together")>>
    \o Np5r_firmware_identity(kind)

Np5r_main ==
    Np5r_validate_deployment \o Np5r_same_deployment \o Np5r_validate_p0
    \o Np5r_validate_rtl \o Np5r_validate_build \o Np5r_validate_variant_path
    \o Np5r_validate_required_command
    \o Np5r_validate_simulation_evidence("lp") \o Np5r_validate_simulation_evidence("hp")
    \o <<Publish(<<"npu5", "report">>)>>

-----------------------------------------------------------------------------
(* P1: block synthesis and timing, without any identity of the sources.    *)

Np1__run_flow(what)  == <<Try(what)>>
Np1__write_filelist  == <<Try("sources of the block present")>>
Np1__synth           == <<Compile("netlist")>> \o Np1__run_flow("yosys")
Np1__sta             == Np1__run_flow("opensta")
Np1_main ==
    Np1__write_filelist \o Np1__synth \o <<Doubt("macros, no latch")>>
    \o Np1__sta \o <<Doubt("setup closes"), Publish(<<"npu1", "evidence">>)>>

-----------------------------------------------------------------------------
(* P6: corpus, performance, formal, netlist, physical, regression, report. *)

Identity == DigestOf({"tool"})

Np6c__decode_layers == <<Try("layers of the framework unchanged")>>
Np6c__load_cases    == <<Try("1000 cases in corpus order")>> \o Np6c__decode_layers
Np6c_encode_shard   == <<Try("contiguous cases")>>
Np6c_build_workload == Np6c__load_cases \o Np6c_encode_shard \o <<Make("shards"), Hold("shards")>>
Np6c_main == <<Identity>> \o Np6c_build_workload \o <<Publish(<<"npu6", "corpus">>)>>

Np6v_variant_root     == <<Try("variant resolved")>>
Np6v_build_variants   == Np6v_variant_root \o <<Compile("emu")>>
Np6v_qualification_configuration == <<Try("one PRODUCT configuration")>>
Np6v_parse_case_line  == {"fields"}
Np6v_parse_log ==
    [Strict(Np6v_parse_case_line \cup {"order", "policy", "class"}) EXCEPT !.ends = 1..2]
Np6v_package_shard    == <<Try("bundle packed")>>
Np6v_simulate_shard   == Np6v_package_shard \o <<Run(Np6v_parse_log)>>
Np6v_load_compiler_estimate == <<Try("positive estimates")>>
Np6v_compare_compiler_estimates == <<>>
Np6v_summarize_workload ==
    <<Try("cases 0..999 in order")>> \o Np6v_compare_compiler_estimates
    \o <<Doubt("twice as fast as the reference")>>
\* The shards are loaded as they lie there; two stand for the twenty.
Np6v_main ==
    <<Glance(<<"npu6", "corpus">>, FALSE)>> \o Np6v_build_variants
    \o Np6v_qualification_configuration \o Np6v_simulate_shard \o Np6v_simulate_shard
    \o Np6v_load_compiler_estimate \o Np6v_summarize_workload
    \o <<Identity, Publish(<<"npu6", "performance">>)>>

Np6f_task == <<Try("task passed, mode and depth known")>>
Np6f_main == Np6f_task \o <<Identity, Publish(<<"npu6", "formal">>)>>

Np6n_write_functional_stdcell == <<Try("specify blocks and notifiers removed")>>
Np6n_plusarg_value == <<Try("one value")>>
Np6n_main ==
    <<Call("Np1"), Glance(<<"npu1", "evidence">>, FALSE), Try("sixteen macros")>>
    \o Np6n_write_functional_stdcell \o <<Compile("model")>> \o Np6n_plusarg_value
    \o <<Run([Strict({}) EXCEPT !.ends = 1..2]), Identity, Publish(<<"npu6", "netlist">>)>>

Np6p_variant_root    == <<Try("variant resolved")>>
Np6p_timing_metrics  == <<Try("setup and hold close")>>
Np6p_npu_macro_count == <<Try("sixteen macros")>>
Np6p_validate_result == <<Try("flow result passed")>>
Np6p_main ==
    <<Glance(<<"npu6", "netlist">>, FALSE)>> \o Np6p_variant_root \o <<Make("product")>>
    \o Np6p_validate_result \o <<Try("configuration, warnings, area")>>
    \o Np6p_timing_metrics \o <<Try("no latch, no black box")>> \o Np6p_npu_macro_count
    \o <<Identity, Hold("product"), Publish(<<"npu6", "physical">>)>>

Np6g_run_suite == <<Try("regression suite")>>
Np6g_main == Np6g_run_suite \o <<Identity, Publish(<<"npu6", "regression">>)>>

\* A required record passed; its own sources are those of this moment, its
\* other files are taken as they are, but for the shards of the corpus.
Np6r_require_pass(g) == <<Glance(g, FALSE)>>
Np6r_validate_corpus == <<Take(<<"npu6", "corpus">>), Try("ten shards of hundred cases")>>
Np6r_validate_performance ==
    Np6r_require_pass(<<"npu6", "performance">>) \o <<Try("totals add up")>>
Np6r_validate_implementation == <<Current>>
Np6r_main ==
    <<Identity>> \o Np6r_validate_corpus \o Np6r_validate_performance
    \o Np6r_require_pass(<<"npu6", "formal">>) \o Np6r_require_pass(<<"npu6", "netlist">>)
    \o Np6r_require_pass(<<"npu6", "physical">>) \o Np6r_require_pass(<<"npu6", "regression">>)
    \o Np6r_validate_implementation
    \o Np6r_require_pass(<<"npu0", "qualification">>) \o Np6r_require_pass(<<"npu5", "report">>)
    \o <<Publish(<<"npu6", "report">>)>>
=============================================================================
