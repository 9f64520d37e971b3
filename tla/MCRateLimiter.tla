--------------------------- MODULE MCRateLimiter ---------------------------
(* Instances of RateLimiter for TLC.                                       *)
EXTENDS RateLimiter, TLC

CONSTANTS ip1, k1, k2, s1, s2

MCIps == {ip1}
MCKeys == {k1, k2}
Enabled(type, given, origins) ==
    [type |-> type, given |-> given, origins |-> origins, status |-> "enabled"]
MCFirstKeys == [k \in {k1} |-> Enabled("external", {}, FALSE)]
MCNewRows == {Enabled("internal", {"minute"}, TRUE), Enabled("internal", {"day"}, TRUE),
              Enabled("internal", {}, FALSE)}
MCSlots == {s1, s2}
MCSymmetry == Permutations(MCSlots)

MCWindow == [authip |-> 1, public |-> 1, minute |-> 2, day |-> 3]
MCLimit == [authip |-> 2, public |-> 1, minute |-> 1, day |-> 2]
=============================================================================
