----------------------------- MODULE MCCampaigns ------------------------------
(* A wheel that places its own orders, from a book of cash; and one whose put  *)
(* and covered call expire at one close.                                      *)
EXTENDS Campaigns

MCBook == [puts |-> 0, calls |-> 0, longs |-> 0, lots |-> 0]
MCStrangle == [puts |-> 1, calls |-> 1, longs |-> 0, lots |-> 1]
=============================================================================
