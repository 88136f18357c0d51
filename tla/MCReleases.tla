----------------------------- MODULE MCReleases -----------------------------
(***************************************************************************)
(* Instances of Releases for TLC: a volume and one file outside it.        *)
(***************************************************************************)
EXTENDS Releases, TLC

Files == <<"primary", "fallback">>

\* Identifiers are drawn at random: any of them could have been any other.
Interchangeable == Permutations(Release) \union Permutations(Job)
=============================================================================
