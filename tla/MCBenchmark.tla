------------------------------ MODULE MCBenchmark ------------------------------
(* One multiplier at two precisions; the user has multipliers of his own.  *)
EXTENDS Benchmark

MCMultipliers == <<2>>
MCPrecisions == <<FALSE, TRUE>>
MCUserSettings == [mult : {4, 8}, fp16 : {FALSE}, rest : {"user"}]
=============================================================================
