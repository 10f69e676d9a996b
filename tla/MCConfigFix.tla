---------------------------- MODULE MCConfigFix -----------------------------
(***************************************************************************)
(* Small instances of ConfigFix: two flagged grants and a harmless one,    *)
(* one or two config files, one or two fixers.                             *)
(***************************************************************************)
EXTENDS ConfigFix

CONSTANTS c1, c2   \* config files

MCGrant  == {"shell", "star", "safe"}
MCUnsafe == {"shell", "star"}
MCBit    == {"owner", "group", "other"}
MCUmask  == {"other"}

OneFile  == <<c1>>
TwoFiles == <<c1, c2>>

(* A mode the umask narrows, and two modes of which one is the narrower.   *)
Shared  == {{"owner", "other"}}
Changed == {{"owner"}, {"owner", "group"}}
=============================================================================
