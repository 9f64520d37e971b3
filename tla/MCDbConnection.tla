--------------------------- MODULE MCDbConnection ---------------------------
(* A block that adds a node, one without anything that a repetition could  *)
(* meet, and one that opens an epoch.                                      *)
EXTENDS DbConnection

MCStatements == <<
    <<"header", "node", "stakeTx", "movement">>,
    <<"header", "stakeTx">>,
    <<"header", "epoch", "stakeTx", "movement">> >>
=============================================================================
