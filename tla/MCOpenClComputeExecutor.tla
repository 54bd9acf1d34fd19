---------------------- MODULE MCOpenClComputeExecutor ----------------------
(***************************************************************************)
(* Ranges for TLC in one, two and three dimensions: empty ones, fewer      *)
(* items than workers, a range that the workers share evenly and some that *)
(* leave a rest for one task more.                                         *)
(***************************************************************************)
EXTENDS OpenClComputeExecutor

MCSizes == {<<0>>, <<1>>, <<7>>, <<0, 2>>, <<3, 2>>, <<2, 3>>, <<1, 2, 2>>, <<2, 1, 3>>}
MCOffset == <<1, 0, 2>>
=============================================================================
