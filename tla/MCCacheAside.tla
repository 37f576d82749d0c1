---------------------------- MODULE MCCacheAside ----------------------------
(***************************************************************************)
(* Model-checking instance of CacheAside: two requests, a few versions,    *)
(* one version in the middle whose value is falsy.                         *)
(***************************************************************************)
EXTENDS CacheAsideProperties

MCFalsy == {2}

=============================================================================
