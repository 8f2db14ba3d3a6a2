--------------------------- MODULE MCVerifiedFetch ---------------------------
EXTENDS VerifiedFetch, TLC
\* Owners and identifiers are interchangeable; one payload is not JSON.
Interchangeable == Permutations(Owner) \cup Permutations(Identifier)
=============================================================================
