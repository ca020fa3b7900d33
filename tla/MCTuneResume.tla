---------------------------- MODULE MCTuneResume ----------------------------
(***************************************************************************)
(* Cells for the runs of TuneResume (one at each of two voltages, and two  *)
(* at one voltage) and their scenes: a process that is killed, a request   *)
(* to the main loop, one to the drain runner, and a selection and a kill   *)
(* on a sound miner.                                                       *)
(***************************************************************************)
EXTENDS TuneResume

TwoVoltages == {<<13, 5>>, <<14, 5>>}
OneVoltage  == {<<13, 4>>, <<13, 6>>}

Scene(k, a, t) == [kills |-> k, asks |-> a, trouble |-> t]

NoInterference == {Scene(0, {}, Trouble)}
OneKill        == {Scene(1, {}, Trouble)}
KillsAndAsks   == {Scene(1, {}, Trouble), Scene(1, {"request"}, {"cells"}),
                   Scene(1, {"drain"}, {"cells"}), Scene(1, {"select"}, {})}
=============================================================================
