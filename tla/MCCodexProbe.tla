---------------------------- MODULE MCCodexProbe ----------------------------
(* Model checking of CodexProbe: the durations keep the order of the code's *)
(* (default cooldown < probe interval = failure window < reset cap; the     *)
(* later soft-avoid levels outlast the failure window).                     *)
EXTENDS CodexProbe, TLC

MCSoftAvoidMs == <<1, 4>>
MCQuotaMetas ==
    {NoMeta,
     [retryAfter |-> 0, resets |-> <<0, 9, 8>>],
     [retryAfter |-> 3, resets |-> <<9, 0, 0>>]}
Symmetry == Permutations(Requests)
=============================================================================
