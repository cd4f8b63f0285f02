--------------------------- MODULE MCRateLimiter ---------------------------
(***************************************************************************)
(* Small instances of RateLimiter: logins of one identifier from networks  *)
(* a and b (the network's and the pair's keys are reserved and reset       *)
(* together, so one key stands for both), and logins from a known device.  *)
(***************************************************************************)
EXTENDS RateLimiter, TLC

CONSTANTS q1, q2, a, b, device, identifier

MCKeysOf == [s \in Source |-> IF s = device THEN {s} ELSE {s, identifier}]
MCForgives == [s \in Source |-> {s}]

Escalating == [limit |-> 2, window |-> 1, ladder |-> <<1, 2>>, decay |-> 2]
Flat == [limit |-> 3, window |-> 3, ladder |-> << >>, decay |-> 0]
MCRule == [k \in Key |-> IF k = identifier THEN Flat ELSE Escalating]

Symmetry == Permutations({q1, q2})
=============================================================================
