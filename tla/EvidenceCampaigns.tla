------------------------- MODULE EvidenceCampaigns -------------------------
(***************************************************************************)
(* The recipes by name, and the campaigns: which recipes, documents, build *)
(* products and classes of sources meet on one disk.                       *)
(***************************************************************************)
EXTENDS TinyEvidence, BlockEvidence, NpuEvidence, ApuEvidence

Recipes ==
    [P1_build_image |-> P1_build_image, P1_verilator |-> P1_simulate("verilator"),
     P1_iverilog |-> P1_simulate("iverilog"), P1_report |-> P1_report,
     P2_capture |-> P2_capture, P2_run |-> P2_run, Ics_capture |-> Ics_capture,
     Ics_audit |-> Ics_audit_netlist, Ics_verify |-> Ics_verify_netlist, Ics_report |-> Ics_report,
     P3_image |-> P3_image, P3_verilator |-> P3_simulate("verilator"),
     P3_iverilog |-> P3_simulate("iverilog"), P3_matrix |-> P3_matrix,
     P3_matrix_resume |-> P3_matrix_resume, P3_report |-> P3_report,
     P4_verilator |-> P4_replay("verilator"), P4_iverilog |-> P4_replay("iverilog"),
     P4_report |-> P4_report,
     P5_verilator |-> P5_replay("verilator"), P5_iverilog |-> P5_replay("iverilog"),
     P5_report |-> P5_report,
     P6_capture |-> P6_capture, P6_verification |-> P6_capture_verification_update,
     P6_consumer |-> P6_capture_consumer_update,
     P6_collection |-> P6_capture_collection_update, P6_report |-> P6_report,
     P7_capture |-> P7_capture_source, P7_verify |-> P7_verify_source,
     P7_audit |-> P7_audit_netlist, P7_verify_netlist |-> P7_verify_netlist,
     P8_capture |-> P8_capture, P8_report |-> P8_report,
     P9_vga |-> P9_run_campaign("VGA_YUV422"), P9_recovery |-> P9_run_campaign("RECOVERY"),
     P10_matched |-> P10_main("matched"), P10_software |-> P10_main("software"),
     P10_audio |-> P10_main("audio"), P10_camera |-> P10_main("camera"),
     P10_backend |-> P10_main("backend"),
     P10_report |-> P10_report_stage(<<"matched", "audio", "camera", "backend">>),
     Spi1_lint |-> Spi1_main("lint"),
     Spi1_rtl_verilator |-> Spi1_main("rtl-verilator"),
     Spi1_rtl_iverilog |-> Spi1_main("rtl-iverilog"),
     Spi1_formal |-> Spi1_main("formal"),
     Spi1_synth |-> Spi1_main("synth"),
     Spi1_netsim |-> Spi1_main("netsim"),
     Spi1_sta |-> Spi1_main("sta"),
     Spi1_report |-> Spi1_main("report"),
     Spi1_formal_old |-> Spi1_main("formal-old"),
     Spi2_lint |-> Spi2_main("lint"),
     Spi2_rtl |-> Spi2_main("rtl"),
     Spi2_report |-> Spi2_main("report"),
     Spi3_rtl |-> Spi3_main("rtl"),
     Spi4_rtl |-> Spi4_main("rtl"),
     Spi4_check |-> Spi4_main("check"),
     Ppa1_lint |-> Ppa1_main("lint"),
     Ppa1_rtl_verilator |-> Ppa1_main("rtl-verilator"),
     Ppa1_rtl_iverilog |-> Ppa1_main("rtl-iverilog"),
     Ppa1_formal |-> Ppa1_main("formal"),
     Ppa1_synth |-> Ppa1_main("synth"),
     Ppa1_netsim |-> Ppa1_main("netsim"),
     Ppa1_sta |-> Ppa1_main("sta"),
     Ppa1_report |-> Ppa1_main("report"),
     Ppa2_lint |-> Ppa2_main("lint"),
     Ppa2_rtl_verilator |-> Ppa2_main("rtl-verilator"),
     Ppa2_rtl_iverilog |-> Ppa2_main("rtl-iverilog"),
     Ppa2_formal |-> Ppa2_main("formal"),
     Ppa2_synth |-> Ppa2_main("synth"),
     Ppa2_netsim |-> Ppa2_main("netsim"),
     Ppa2_sta |-> Ppa2_main("sta"),
     Ppa2_report |-> Ppa2_main("report"),
     Pio_lint |-> Pio_main("lint"),
     Pio_rtl_verilator |-> Pio_main("rtl-verilator"),
     Pio_rtl_iverilog |-> Pio_main("rtl-iverilog"),
     Pio_formal |-> Pio_main("formal"),
     Pio_synth |-> Pio_main("synth"),
     Pio_netsim |-> Pio_main("netsim"),
     Pio_sta |-> Pio_main("sta"),
     Pio_report |-> Pio_main("report"),
     Cry0_constants |-> Cry0_main(Cry0_constants), Cry0_rtl |-> Cry0_main(Cry0_rtl),
     Cry0_synth |-> Cry0_main(Cry0_synth), Cry0_report |-> Cry0_main(Cry0_report_all),
     Cry1_firmware |-> Cry1_firmware_run, Cry1_quality |-> Cry1_quality,
     Cry1_rtl |-> Cry1_rtl, Cry1_formal |-> Cry1_formal, Cry1_synth |-> Cry1_synth,
     Cry1_report |-> Cry1_report_all, Cry2_report |-> Cry2_report,
     Np0 |-> Np0_main(FALSE), Np0_limited |-> Np0_main(TRUE), Np1 |-> Np1_main,
     Np5_rtl |-> Np5_main, Np5_lp |-> Np5_simulate("lp"), Np5_report |-> Np5r_main,
     Np6_corpus |-> Np6c_main, Np6_verilator |-> Np6v_main, Np6_formal |-> Np6f_main,
     Np6_netlist |-> Np6n_main, Np6_physical |-> Np6p_main, Np6_regression |-> Np6g_main,
     Np6_report |-> Np6r_main,
     Ap5_truth |-> Apq_main, Ap5_rtl |-> Ap5_main,
     Ap7_accuracy |-> Apk_main(FALSE), Ap7_subset |-> Apk_main(TRUE),
     Ap7_concurrent |-> Apc_main, Ap9_memory |-> Ap9m_main,
     Ap9_initialize |-> Ap9__initialize, Ap9_assemble |-> Ap9__assemble]

\* Recipes, build products (there from the start, made by flows outside the
\* recipes, others), classes of sources, documents (and those of earlier stages
\* that are there from the start), and the bound on starts.  With a script the
\* recipes are started in its order, else in any.
C(jobs, have, built, other, classes, groups, n) ==
    [jobs |-> jobs, files |-> have \cup built \cup other, have |-> have, built |-> built,
     classes |-> classes, groups |-> groups, starts |-> n, done |-> {},
     meanwhile |-> {}, script |-> <<>>]

G(phase, kinds) == {<<phase, k>> : k \in kinds}

\* A block flow: its independent stages, two of them; and the stages on the
\* netlist, with the others done.
Independent == {"lint", "rtl-verilator", "rtl-iverilog", "formal"}
Front(phase, jobs) == C(jobs, {}, {}, {}, {"dut"}, G(phase, Independent), 2)
Back(phase, jobs) ==
    [C(jobs, {}, {}, {}, {"dut"},
       G(phase, Independent \cup {"synth", "netsim", "sta", "report"}), 4)
     EXCEPT !.done = G(phase, Independent)]

Campaigns ==
    [p1 |-> C({"P1_build_image", "P1_verilator", "P1_iverilog", "P1_report"},
              {}, {}, {"emu", "simv"}, {"dut"},
              G("p1", {"image", "verilator", "iverilog", "report"}), 4),
     \* Two retained images, and the simulators may be given different ones.
     p1pair |-> [C({}, {}, {}, {"emu", "simv"}, {"dut"},
              G("p1", {"image", "verilator", "iverilog", "report"}), 5)
              EXCEPT !.script = <<"P1_build_image", "P1_build_image", "P1_verilator",
                                  "P1_iverilog", "P1_report">>],
     p2 |-> C({"P2_capture", "P2_run"}, {"netlist"}, {"netlist"}, {}, {"dut"},
              G("p2", {"inputs", "feasibility"}), 5),
     ics |-> C({"Ics_capture", "Ics_audit", "Ics_verify", "Ics_report"}, {"netlist", "sta"},
              {"netlist", "sta"}, {}, {"dut"}, G("ics", {"inputs", "audit", "report"}), 4),
     p3 |-> C({"P3_matrix", "P3_matrix_resume", "P3_report"},
              {"firmware"}, {"emu"}, {"simv"}, {"dut"},
              G("p3", {"image", "verilator", "iverilog", "matrix", "report"}), 2),
     p3resumed |-> [C({}, {"firmware"}, {}, {"emu", "simv"}, {"dut"},
              G("p3", {"image", "verilator", "iverilog", "matrix", "report"}), 3)
              EXCEPT !.script = <<"P3_matrix", "P3_matrix_resume", "P3_report">>],
     p4 |-> C({"P4_verilator", "P4_iverilog", "P4_report"},
              {"reference"}, {"emu", "reference"}, {"simv"}, {"dut"},
              G("p4", {"verilator", "iverilog", "report"}), 4),
     p5 |-> C({"P5_verilator", "P5_iverilog", "P5_report"},
              {"reference"}, {"emu", "reference"}, {"simv"}, {"dut"},
              G("p5", {"verilator", "iverilog", "report"}), 3),
     p6 |-> C({"P6_capture", "P6_verification", "P6_consumer", "P6_collection", "P6_report"},
              {}, {"emu", "simv"}, {}, {"dut", "tb", "pub", "tool"},
              G("p6", {"source", "verification", "consumer", "collection", "report"}), 5),
     p7 |-> C({"P7_capture", "P7_verify", "P7_audit", "P7_verify_netlist"},
              {"netlist"}, {"netlist"}, {}, {"dut"}, G("p7", {"source", "audit"}), 4),
     p8 |-> C({"P8_capture", "P8_report"}, {"emu", "firmware"},
              {"emu", "run"}, {}, {"dut"}, G("p8", {"source", "report"}), 5),
     p9 |-> C({"P9_vga", "P9_recovery"}, {}, {"emu"}, {"firmware"}, {"dut"},
              G("p9", {"assessment"}), 3),
     p10 |-> [C({"P10_matched", "P10_backend", "P10_report"},
               {"reference"}, {"emu"}, {"netlist", "simv"}, {"dut", "tool"},
               G("p10", {"matched", "audio", "camera", "backend", "report"}), 3)
               EXCEPT !.done = G("p10", {"audio", "camera"})],
     p10app |-> C({"P10_audio", "P10_camera"}, {}, {}, {"emu-audio", "emu-camera"},
               {"dut"}, G("p10", {"audio", "camera"}), 3),
     p10software |-> C({"P10_matched", "P10_software"}, {"reference"}, {"emu"}, {},
               {"dut"}, G("p10", {"matched", "software"}), 3),
     \* SPI: proofs of an earlier, possibly failed campaign are reused.
     spi1 |-> C({"Spi1_formal_old", "Spi1_formal", "Spi1_lint"}, {}, {}, {},
               {"dut", "tool"}, G("spi1", {"formal-old", "formal", "lint"}), 3),
     spi1net |-> Back("spi1", {"Spi1_synth", "Spi1_netsim", "Spi1_sta", "Spi1_report"}),
     spi1rtl |-> Front("spi1", {"Spi1_rtl_verilator", "Spi1_rtl_iverilog"}),
     spi2 |-> C({"Spi2_lint", "Spi2_rtl", "Spi2_report", "Spi3_rtl", "Spi4_rtl", "Spi4_check"},
               {}, {}, {}, {"dut"}, G("spi2", {"lint", "rtl", "report"})
               \cup {<<"spi3", "rtl">>, <<"spi4", "rtl">>, <<"spi4", "check">>}, 2),
     ppa1 |-> Front("ppa1", {"Ppa1_lint", "Ppa1_rtl_verilator", "Ppa1_rtl_iverilog", "Ppa1_formal"}),
     ppa1net |-> Back("ppa1", {"Ppa1_synth", "Ppa1_netsim", "Ppa1_sta", "Ppa1_report"}),
     ppa2 |-> Front("ppa2", {"Ppa2_lint", "Ppa2_rtl_verilator", "Ppa2_rtl_iverilog", "Ppa2_formal"}),
     ppa2net |-> Back("ppa2", {"Ppa2_synth", "Ppa2_netsim", "Ppa2_sta", "Ppa2_report"}),
     pio |-> Front("pio", {"Pio_lint", "Pio_rtl_verilator", "Pio_rtl_iverilog", "Pio_formal"}),
     pionet |-> Back("pio", {"Pio_synth", "Pio_netsim", "Pio_sta", "Pio_report"}),
     cry0 |-> C({"Cry0_constants", "Cry0_rtl", "Cry0_synth", "Cry0_report"}, {}, {}, {},
               {"dut"}, G("cry0", {"constants", "functional", "synthesis", "report"}), 4),
     cry1 |-> [C({"Cry1_firmware", "Cry1_quality", "Cry1_report", "Cry2_report"}, {}, {}, {"firmware"},
               {"dut"}, G("cry1", {"functional", "formal", "synthesis", "firmware", "quality", "report"})
                        \cup {<<"cry0", "report">>, <<"cry2", "report">>}, 4)
               EXCEPT !.done = G("cry1", {"functional", "formal", "synthesis"})
                               \cup {<<"cry0", "report">>}],
     cry1hw |-> C({"Cry1_rtl", "Cry1_formal", "Cry1_synth"}, {}, {}, {}, {"dut"},
               G("cry1", {"functional", "formal", "synthesis"}), 2),
     \* NPU: what was run and what is hashed for it may differ.
     npu5 |-> [C({"Np5_rtl", "Np5_lp", "Np5_report"}, {"lp", "hp"}, {"lp"}, {}, {"dut", "fw"},
               {<<"npu0", "qualification">>} \cup G("npu5", {"rtl", "lp", "hp", "report"}), 4)
               EXCEPT !.done = {<<"npu0", "qualification">>, <<"npu5", "hp">>},
                      !.meanwhile = {"Np5_lp"}],
     npu0 |-> C({"Np0", "Np0_limited"}, {}, {}, {}, {"tool"}, {<<"npu0", "qualification">>}, 2),
     npu6 |-> [C({"Np6_corpus", "Np6_verilator", "Np6_physical", "Np6_report"}, {}, {},
               {"shards", "product"}, {"dut", "tool"},
               {<<"npu0", "qualification">>, <<"npu5", "report">>} \cup
               G("npu6", {"corpus", "performance", "formal", "netlist", "physical",
                          "regression", "report"}), 4)
               EXCEPT !.done = {<<"npu0", "qualification">>, <<"npu5", "report">>} \cup
                               G("npu6", {"formal", "netlist", "regression"})],
     npu6net |-> C({"Np6_netlist", "Np6_formal", "Np6_regression"}, {}, {}, {}, {"dut", "tool"},
               {<<"npu1", "evidence">>} \cup G("npu6", {"netlist", "formal", "regression"}), 2),
     \* APU: results of single cases are used again.
     apu5 |-> C({"Ap5_truth", "Ap5_rtl"}, {}, {}, {"truth"}, {"dut", "tb"},
               G("apu5", {"truth", "icarus", "verilator", "report"}), 3),
     apu7 |-> C({"Ap7_accuracy", "Ap7_subset", "Ap7_concurrent"}, {"bundle"}, {"bundle"}, {},
               {"dut"}, G("apu7", {"accuracy", "subset", "concurrent"}), 2),
     apu9 |-> C({"Ap9_memory", "Ap9_initialize", "Ap9_assemble"}, {"baseline"}, {"candidate"}, {},
               {"dut"}, G("apu9", {"memory", "layout", "memory-final", "numerical-final",
                                   "physical-final"}), 4)]

-----------------------------------------------------------------------------
\* The classes in which product f of a record of group g must equal its digest.
\* The recipes of Rechecked hash the sources again behind the last product.
Rechecked(g) == g[1] \notin {"spi2", "cry0", "npu0", "npu1", "npu5", "npu6",
                                      "apu5", "apu7"} /\ g \notin
    {<<"cry1", "functional">>, <<"cry1", "synthesis">>, <<"cry1", "quality">>}

\* The classes the earlier record of group g was hashed over.
Hashed(g) == IF g[1] \in {"npu0", "npu5", "npu6"} THEN {"tool"} ELSE {"dut", "tb", "pub", "tool"}

\* The reports that hash again what their records were made from, and the
\* records whose sources were hashed only behind the run.
Closing    == {<<"cry0", "report">>, <<"cry1", "report">>, <<"npu5", "report">>}
HashedLate == {<<"cry1", "quality">>}

Bound(g, f) ==
    CASE ~Rechecked(g) -> {}
      [] g[1] = "p6" /\ f = "simv" -> {"dut", "tb"}
      [] g[1] = "p6" -> {"dut"}
      [] f = "proof" /\ g = <<"spi1", "formal">> -> {"dut", "tb", "pub"}
      [] OTHER -> {"dut", "tb", "pub", "tool"}

\* The groups whose records a report of group g takes for the same hardware;
\* the reports of CRYPTO-P2 and NPU-P6 read nothing but their status, and the ICS55 audit is
\* tied to its report by the hash of the netlist.
AllGroups == UNION {Campaigns[c].groups : c \in DOMAIN Campaigns}
SameSource(g) == IF g[2] = "report" /\ g[1] \notin {"cry2", "npu6"}
    THEN {h \in AllGroups : h[1] = g[1]}
         \ {<<"ics", "audit">>} ELSE {}

CrossSimulator == {<<p, "report">> : p \in {"p1", "p4", "p5"}}
Resumable == {<<"p3", "matrix">>}
Borrowed  == {<<"spi1", "formal-old">>}
\* Judged by exit status and result lines alone, or by the output alone.
ResultLines == G("apu5", {"icarus", "verilator", "report"})
               \cup G("apu7", {"accuracy", "subset", "concurrent"})
TranscriptOnly == {<<"npu0", "qualification">>, <<"spi4", "check">>, <<"spi2", "rtl">>}
=============================================================================
