---------------------------- MODULE MCCacheFile -----------------------------
(***************************************************************************)
(* Finite values for the constants of CacheFile.                            *)
(***************************************************************************)
EXTENDS CacheFile

\* A start without a cache file; a delay with limits; a chance limit of -1.
NoCache  == <<1, 0, 0, 0, 0, 0>>
TwoHeads   == {<<0, 1, 7, 50, 2, 5>>, <<1, 0, 0, -1, 3, 4>>}
=============================================================================
