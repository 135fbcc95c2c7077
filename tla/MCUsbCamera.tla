----------------------------- MODULE MCUsbCamera -----------------------------
(* UsbCamera with a camera whose serial gives an address, then one whose does not. *)
EXTENDS UsbCamera

\* An older VM that lacks some symbols and has one of its own.
MCVM ==
  [major |-> 2, minor |-> 4,
   functions |-> FoldSet(LAMBDA s, table : Append(table, [name |-> s, function |-> s]), <<>>,
                         (DART_API_ALL_DL_SYMBOLS \ {"Dart_NewSendPortEx", "Dart_SendPortGetIdEx"})
                         \cup {"Dart_Older"})]

MCSerials == <<<<67, 51, 52, 53>>, <<67, 51, 52, 88>>>>
MCNames   == {<<101, 48>>, <<103>>}
MCBudgets == {-1, 0}

=============================================================================
