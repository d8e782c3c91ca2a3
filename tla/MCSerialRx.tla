------------------------------ MODULE MCSerialRx ------------------------------
\* A ring of four characters: three fit, and as many more arrive as it takes to
\* overflow it twice and to go around it once.
EXTENDS SerialRx

OneOrTwo == {1, 2}
=============================================================================
