-------------------------- MODULE MCIngestPipeline --------------------------
(* Small instances of the pipeline: who uploads what.                      *)
EXTENDS IngestPipelineInv, TLC

CONSTANTS b1, b2, f1, f2, f3, d1, d2, d3, e1, e2

\* Request b1 offers two files, request b2 a third.
TwoRequests == (f1 :> b1) @@ (f2 :> b1) @@ (f3 :> b2)

\* b2 offers the bytes of f1 again.
SameBytesAgain == (f1 :> d1) @@ (f2 :> d2) @@ (f3 :> d1)

\* b1 offers the same bytes twice, b2 others.
SameBytesTwice == (f1 :> d1) @@ (f2 :> d1) @@ (f3 :> d2)

\* Every file is different.
DistinctBytes == (f1 :> d1) @@ (f2 :> d2) @@ (f3 :> d3)

\* Two documents of one purchase, or of two.
OnePurchase == (d1 :> e1) @@ (d2 :> e1)
TwoPurchases == (d1 :> e1) @@ (d2 :> e2)
ThreeDocuments == (d1 :> e1) @@ (d2 :> e2) @@ (d3 :> e2)
=============================================================================
