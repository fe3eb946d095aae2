---------------------------- MODULE MCListPaging ----------------------------
(* Small instances of ListPaging for TLC.                                  *)
EXTENDS ListPaging

(* Limits and offsets on both sides of every clamp.                        *)
MCLimits == -1 .. MaxLimit + 1
MCOffsets == -1 .. MaxEntries + 1
=============================================================================
