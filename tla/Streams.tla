------------------------------- MODULE Streams -------------------------------
(***************************************************************************)
(* The streams of lib/avsc (containers.js): of container files, written in  *)
(* blocks through a codec and read from them, and of bare values.  What they*)
(* promise alike.                                                           *)
(***************************************************************************)
EXTENDS BlockDecoder, BlockEncoder, RawStreams

\* What is read and written through a stream keeps its order and nothing of it is lost,
\* in blocks or without them, whenever codecs call back and readers read.
StreamsKeepOrder == ReadsInOrder /\ WritesInOrder /\ RawRoundTrips
==============================================================================
