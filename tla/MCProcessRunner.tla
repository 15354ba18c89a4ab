---------------------------- MODULE MCProcessRunner ----------------------------
(* The lines a run of the instance writes, and those that tell of the      *)
(* progress, for TLC: on both streams in the first run, on one in the      *)
(* second, which may also have an error that reads like one.               *)
EXTENDS ProcessRunner

MCLines == [stdout |-> 1, stderr |-> 2]
MCReports == {<<1, "stdout", 1>>, <<1, "stderr", 1>>, <<1, "stderr", 2>>,
              <<2, "stderr", 1>>, <<2, "runner", 1>>}
=============================================================================
