------------------------------- MODULE MCC10m -------------------------------
EXTENDS C10m

MCSizes == {0, 1, 2, 5} \X {1, 2}
=============================================================================
