--------------------------- MODULE MCTargetGuard ---------------------------
(* The traffic patterns TLC checks the target guard with. *)
EXTENDS TargetGuard

MCTraffic == {<<3, 0, FALSE>>, <<2, 0, TRUE>>, <<0, 3, FALSE>>, <<0, 3, TRUE>>,
              <<2, 1, FALSE>>, <<1, 2, FALSE>>, <<1, 1, TRUE>>}
MCOverlap == {<<1, 1, FALSE>>}
=============================================================================
