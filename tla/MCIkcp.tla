------------------------------- MODULE MCIkcp -------------------------------
EXTENDS Ikcp
MCScript == [e \in Ends |-> IF e = A THEN <<2, 3, 1, 1>> ELSE <<>>]
=============================================================================
