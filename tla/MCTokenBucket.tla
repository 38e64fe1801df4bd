--------------------------- MODULE MCTokenBucket ---------------------------
(* TokenBucket for TLC: three e-mail tasks that wait at the same time.       *)
EXTENDS TokenBucket

CONSTANTS s1, s2, s3
MCSenders == {s1, s2, s3}
=============================================================================
