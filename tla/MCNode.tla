------------------------------- MODULE MCNode -------------------------------
EXTENDS Application

TwoAddrs == <<1, 2>>
=============================================================================
