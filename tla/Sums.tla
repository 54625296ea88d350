-------------------------------- MODULE Sums --------------------------------
(***************************************************************************)
(* Sums of lists of numbers, as a recursive function that can be reasoned  *)
(* about.                                                                  *)
(***************************************************************************)
EXTENDS Integers, Sequences

(* The sum of the first n numbers, for each n. *)
SumsOf(numbers) ==
  LET sum[n \in 0 .. Len(numbers)] == IF n = 0 THEN 0 ELSE sum[n - 1] + numbers[n]
  IN sum

SumOf(numbers) == SumsOf(numbers)[Len(numbers)]
=============================================================================
