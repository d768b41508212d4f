------------------------------ MODULE MCLive -------------------------------
(* Live on small instances; the .cfg files give the constants' values.     *)
EXTENDS Live, TLC

ClientSymmetry == Permutations(Clients) \cup Permutations(Watchers) \cup Permutations(Streams)
=============================================================================
