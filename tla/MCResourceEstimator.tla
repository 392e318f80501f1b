-------------------------- MODULE MCResourceEstimator --------------------------
(* The first rows and columns of the shape of src/src/throughput.csv, with a
   hole (column 2), cells outside the measured region and a dip, for TLC. *)
EXTENDS ResourceEstimator, TLC

SmallTable ==
  0 :> (1 :> 10 @@ 3 :> 30 @@ 4 :> 25 @@ 5 :> 40) @@
  1 :> (1 :> 20 @@ 3 :> 40 @@ 4 :> NaN @@ 5 :> NaN) @@
  2 :> (1 :> 30 @@ 3 :> NaN @@ 4 :> NaN @@ 5 :> NaN) @@
  3 :> (1 :> 40 @@ 3 :> NaN @@ 4 :> NaN @@ 5 :> NaN)

=============================================================================
