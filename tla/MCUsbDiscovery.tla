--------------------------- MODULE MCUsbDiscovery ---------------------------
(* UsbDiscovery for model checking: two ports, of which the second holds a     *)
(* camera that stays as it is.                                              *)
EXTENDS UsbDiscovery
=============================================================================
