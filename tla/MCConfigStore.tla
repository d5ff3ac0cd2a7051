----------------------------- MODULE MCConfigStore -----------------------------
(* An instance of ConfigStore for TLC: three goroutines save two values,   *)
(* with two power losses.                                                  *)
EXTENDS ConfigStore

CONSTANTS s1, s2, s3, v1, v2

ThreeSavers == {s1, s2, s3}
TwoValues == {v1, v2}
================================================================================
