----------------------------- MODULE MCStreaming -----------------------------
(* Three labels of two partitions for a brief of two, one stream and one   *)
(* series, and windows of three rows every two.  The third cycle polls all *)
(* three buckets, two of them for the second or third time.  The second    *)
(* fault begins within a bucket.                                           *)
EXTENDS Streaming

MCSpan == <<<<2, 3>>, <<3, 4>>, <<4, 5>>>>
MCPartOf == <<"a", "b", "a">>
==============================================================================
