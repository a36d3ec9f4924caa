------------------------------- MODULE MCHook -------------------------------
(* Instances of Hook; the .cfg files choose the calls that the fiber makes. *)
EXTENDS Hook

(* The second socket gets the number of the first one.                      *)
IoThenConnectThenIo == <<"io", "connect", "io">>
=============================================================================
