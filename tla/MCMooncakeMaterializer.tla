----------------------- MODULE MCMooncakeMaterializer -----------------------
EXTENDS MooncakeMaterializer

CONSTANTS w1, w2, k1, k2, k3

\* Two prompts without a common chunk: one of two chunks, one of a single chunk.
DisjointBatches == w1 :> {k1, k2} @@ w2 :> {k3}

\* Two prompts with the same shared prefix of one chunk.
SharedPrefixBatches == w1 :> {k1, k2} @@ w2 :> {k1}
=============================================================================
