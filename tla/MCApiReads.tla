----------------------------- MODULE MCApiReads -----------------------------
(* Instances of ApiReads for TLC: two histories of two names.              *)
EXTENDS ApiReads

CONSTANTS n1, n2, v1, v2, a, b

MCNames == {n1, n2}
MCRank == (n1 :> 1) @@ (n2 :> 2)
MCValidators == {v1}
MCOwners == {a, b}

Log(name, kind, block, index) == [name |-> name, kind |-> kind, block |-> block, index |-> index]
Transfer(name, block, index, from, to) == [from |-> from, to |-> to] @@ Log(name, "Transfer", block, index)
Lease(name, kind, block, index, until) == [expiration |-> until] @@ Log(name, kind, block, index)
Block(name, block, index, on) == [blocked |-> on] @@ Log(name, "BlockedSet", block, index)

Mint(name, block, index, to, until) ==
    <<Transfer(name, block, index, "none", to), Lease(name, "Registered", block, index + 1, until)>>

(* rewarded: pools with a reward for the epoch that ends; backed: those of *)
(* the delegator.                                                          *)
BlockOf(logs, staked, epoch, validators, rewarded, backed) ==
    [logs |-> logs, stakes |-> staked, epoch |-> epoch, validators |-> validators,
     rewarded |-> rewarded, backed |-> backed]

MCChains == {
    << BlockOf(Mint(n1, 1, 1, a, 5), 1, 1, {v1}, {}, {v1}),
       BlockOf(<<Log(n1, "Activated", 2, 1), Transfer(n1, 2, 2, a, b), Log(n1, "Deactivated", 2, 3)>>,
               2, 2, {v1, v2}, {v1, v2}, {v1, v2}),
       BlockOf(<<Lease(n1, "Renewed", 3, 1, 9)>>, 0, 3, {v1}, {v1}, {v1, v2}) >>,
    << BlockOf(Mint(n1, 1, 1, a, 2) \o <<Block(n2, 1, 3, TRUE)>>, 0, 1, {v2}, {}, {v2}),
       BlockOf(Mint(n2, 2, 1, b, 6) \o <<Block(n1, 2, 3, TRUE)>>, 1, 2, {v1}, {v1, v2}, {v2}),
       BlockOf(Mint(n1, 3, 1, b, 8) \o <<Block(n1, 3, 3, FALSE)>>, 1, 3, {v1}, {v1}, {v1, v2}) >> }
=============================================================================
