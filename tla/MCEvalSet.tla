------------------------------ MODULE MCEvalSet ------------------------------
(* A task of two samples in a set, under several tolerances. *)
EXTENDS EvalSet
CONSTANTS s1, s2

MCSamples == {s1, s2}
MCEarlier == {{}}
Config(fail, continue, retries) ==
  [fail_on_error |-> fail, continue_on_fail |-> continue, retry_on_error |-> retries]
MCConfigs ==
  {Config(Always, FALSE, 1), Config(Share(2), TRUE, 0), Config(Count(2), FALSE, 0)}
PlainConfigs == {Config(Always, FALSE, 0)}
=============================================================================
