---------------------------- MODULE ApuEvidence ----------------------------
(***************************************************************************)
(* The recipes of the APU qualification: the FLAC corpus of P5             *)
(* (scripts/qualify_apu_p5_corpus.py, run_apu_p5_corpus_rtl.py), the       *)
(* keyword spotter of P7 (run_apu_p7_kws_rtl.py,                           *)
(* run_apu_p7_concurrent_rtl.py), and the reports of P9                    *)
(* (apu_p9_memory_ab.py, apu_p9_evidence.py).                              *)
(*                                                                         *)
(* They hash what they ran only behind the compile or the run, and a       *)
(* failed run is a report like any other, not an exception.                *)
(***************************************************************************)
EXTENDS EvidenceSteps

-----------------------------------------------------------------------------
(* P5: the truth of the corpus, then every file on both simulators.  One   *)
(* file stands for all of them.                                            *)

Apq__decode_hash == <<Doubt("model and libFLAC agree")>>
Apq__classify    == <<Try("file classified")>> \o Apq__decode_hash
Apq_main ==
    <<Try("libFLAC and corpus present")>> \o Apq__classify
    \o <<Make("truth"), Digest, Hold("truth"), Publish(<<"apu5", "truth">>)>>

Ap5__production_sources == <<Try("filelist")>>
Ap5__case_parameters    == <<Try("expectation known")>>
\* Hashed at the end of the compile, not before it.
Ap5__verification_sha256 == <<Digest>>
Ap5__compile ==
    Ap5__production_sources \o <<Compile("model")>> \o Ap5__verification_sha256
Ap5__truth_sha256 == <<Adopt("truth")>>

Ap5__parse_result == [Strict({}) EXCEPT !.fail = FALSE, !.ends = 1..2]
Ap5__check_truth  == {"fields", "size", "samples"}
\* Whatever goes wrong in a case is its recorded result.
Ap5__record_execution_failure(p) == [p EXCEPT !.checks = Ap5__check_truth]

\* A pass with the same label is not run again; one of the fixture before the
\* wall clock option is given the new label.
Ap5__can_reuse_result       == {}
Ap5__can_migrate_pass_result == {"tb"}
Ap5__run_case(sim) ==
    <<Reuse(<<"apu5", sim>>, Ap5__can_reuse_result \cup Ap5__can_migrate_pass_result, 1),
      Result(<<"apu5", sim>>, Ap5__record_execution_failure(Ap5__parse_result))>>

Ap5_main ==
    Ap5__compile \o Ap5__truth_sha256 \o Ap5__case_parameters
    \o Ap5__run_case("icarus") \o Ap5__run_case("verilator")
    \o <<Doubt("both simulators agree on each file"), Publish(<<"apu5", "report">>)>>

-----------------------------------------------------------------------------
(* P7: accuracy of the spotter, and its work beside a decoder.             *)

Apk__load_manifest == <<Try("1000 frozen windows")>>
Apk__load_labels   == <<Try("labels unchanged and in order")>>
Apk__padded_pcm    == <<Try("samples have the frozen hashes")>>
Apk__compile       == <<Compile("model")>>
Apk__rtl_inputs    == <<Digest>>
\* One line for each window, none twice, and the final marker.
Apk__parse_predictions == [Strict({"windows", "skipped"}) EXCEPT !.fail = FALSE, !.ends = 1..2]
Apk_prepare ==
    Apk__load_manifest \o Apk__load_labels \o Apk__padded_pcm \o Apk__compile
\* A subset has no gate.
Apk_simulate(subset) ==
    <<Weigh(Apk__parse_predictions)>> \o (IF subset THEN <<>> ELSE <<Doubt("900 of 1000 right")>>)
Apk_main(subset) ==
    Apk_prepare \o Apk_simulate(subset)
    \o Apk__rtl_inputs \o <<Publish(<<"apu7", IF subset THEN "subset" ELSE "accuracy">>)>>

\* The newest bundle lying about, or the one named; whether the model is the
\* frozen one is noted and decides nothing.
Apc__resolve_apumc == <<Adopt("bundle")>>
Apc__resolve_apum  == <<Try("model image there, of its size")>>
Apc__expected_pcm  == <<Try("workloads decode")>>
Apc__compile       == <<Compile("model")>>
Apc__kws_schedule  == {"schedule"}
Apc__check_scenario ==
    Apc__kws_schedule \cup {"scoreboard", "xrun", "jobs", "bytes"}
Apc__run_scenario ==
    [exit |-> TRUE, fail |-> FALSE, ends |-> 1..2, checks |-> Apc__check_scenario]
Apc__verification_sources == <<Digest>>
Apc_scenarios == Apc__expected_pcm \o <<Try("whole frames and one job of each kind fit")>>
\* Two scenarios stand for the four.
Apc_simulate == Apc__compile \o <<Weigh(Apc__run_scenario), Weigh(Apc__run_scenario)>>
Apc_report   == Apc__verification_sources \o <<Publish(<<"apu7", "concurrent">>)>>
Apc_main     == Apc__resolve_apumc \o Apc__resolve_apum \o Apc_scenarios \o Apc_simulate \o Apc_report

-----------------------------------------------------------------------------
(* P9: two synthesis variants compared, six reports collected.             *)

Ap9m__memory_inventory == <<Try("memory inventory")>>
Ap9m__logic_inventory  == <<Try("cells counted")>>
Ap9m__pass_timing      == <<Try("passes timed")>>
Ap9m__macro_inventory  == <<Try("macros counted")>>
Ap9m__variant(f) ==
    <<Adopt(f)>> \o Ap9m__memory_inventory \o Ap9m__logic_inventory
    \o Ap9m__pass_timing \o Ap9m__macro_inventory
Ap9m__configuration_digest    == <<Doubt("one configuration")>>
Ap9m__configuration_is_frozen == <<Doubt("the frozen one")>>
Ap9m_main ==
    Ap9m__variant("baseline") \o Ap9m__variant("candidate")
    \o Ap9m__configuration_digest \o Ap9m__configuration_is_frozen
    \o <<Doubt("clean revisions, fewer inferred bits, faster"), Publish(<<"apu9", "memory">>)>>

Ap9__require_artifacts    == <<Try("artifacts named")>>
Ap9__require_passed_tests == <<Try("every test passed")>>
Ap9__validate_memory_ab == <<Try("checks of the comparison all hold")>>
Ap9__validate_numerical == <<Try("bit exact, bounded")>>
Ap9__validate_physical  == <<Try("area, slack and macros accounted")>>
Ap9__validate_passed(kind) ==
    Ap9__require_artifacts
    \o (CASE kind = "memory" -> Ap9__validate_memory_ab
          [] kind = "numerical" -> Ap9__validate_numerical
          [] kind = "physical" -> Ap9__validate_physical
          [] OTHER -> Ap9__require_passed_tests)
Ap9__initialize ==
    <<Try("layout is that of the store"), Digest, Publish(<<"apu9", "layout">>)>>
\* The reports are validated and copied one by one: those before the one that
\* is refused are already in place.
Ap9__assemble ==
    <<Take(<<"apu9", "memory">>)>> \o Ap9__validate_passed("memory")
    \o <<Publish(<<"apu9", "memory-final">>)>>
    \o Ap9__validate_passed("numerical") \o <<Publish(<<"apu9", "numerical-final">>)>>
    \o Ap9__validate_passed("physical") \o <<Publish(<<"apu9", "physical-final">>)>>
=============================================================================
