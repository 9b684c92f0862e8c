---------------------------- MODULE MCLogSink ----------------------------
(* Small instances of LogSink for TLC: records of three pieces, of which a  *)
(* failing write takes none or one, so that a record can be cut at its      *)
(* start and in its middle, by both streams.                                *)
EXTENDS LogSink

\* A record cut at its start or after its first piece.
EarlyCut == {0, 1}
==========================================================================
