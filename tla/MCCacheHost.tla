---------------------------- MODULE MCCacheHost ----------------------------
(* Two editors on one host: of two releases, or of one.                    *)
EXTENDS CacheHost, TLC

CONSTANTS old, new, here, there, a, b

MCReleases == a :> old @@ b :> new
MCRelease == a :> old @@ b :> old
MCHome == a :> here @@ b :> here
=============================================================================
