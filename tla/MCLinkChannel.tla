--------------------------- MODULE MCLinkChannel ---------------------------
(* A model-checking instance of LinkChannel: two users share the channel,  *)
(* at the limit of streams or with a carrier that may fail, or one is      *)
(* alone and its exchange may be dropped as well.                          *)
EXTENDS LinkChannel

CONSTANTS c, w, p

Scenario(users, faults, cancels) == [users |-> users, faults |-> faults, cancels |-> cancels]

Pairs ==
    {Scenario({w, p}, 0, 0), Scenario({c, w}, 1, 0), Scenario({c, p}, 1, 0),
     Scenario({w}, 1, 1), Scenario({p}, 1, 1)}
=============================================================================
