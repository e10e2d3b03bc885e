----------------------------- MODULE MCS32xDdr -----------------------------
(* Instances of S32xDdr for TLC: a few requests of every kind together, or *)
(* many of one kind.                                                       *)
EXTENDS S32xDdr

Work(a, d, l, t, r) == [accesses |-> a, draws |-> d, lines |-> l, tels |-> t, resets |-> r]
MCWorkloads == {Work(1, 1, 1, 0, 0), Work(0, 5, 0, 0, 0), Work(3, 0, 0, 1, 0), Work(2, 0, 0, 0, 1),
               Work(0, 0, 2, 0, 1)}
Few == {Work(2, 0, 1, 0, 0), Work(0, 0, 1, 1, 0), Work(1, 1, 0, 0, 0)}
=============================================================================
