--------------------------- MODULE MCOtaTransfer ---------------------------
\* OtaTransfer for TLC: an image that is long enough to be installed, and one of
\* exactly 1024 bytes.
EXTENDS OtaTransfer

CONSTANTS A, B

MCTotal == [i \in Image |-> IF i = A THEN 3 ELSE 2]
=============================================================================
