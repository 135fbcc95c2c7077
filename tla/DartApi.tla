------------------------------- MODULE DartApi -------------------------------
(***************************************************************************)
(* How the bridges reach the Dart VM: the function pointers that           *)
(* Dart_InitializeApiDL() (native/src/dart_api_dl.c) fills from the table  *)
(* NativeApi.initializeApiDLData, which gopro_bridge_init() hands it.      *)
(*                                                                         *)
(* A DartApi is a record of major, minor and functions; functions is a     *)
(* sequence of entries of a name and a function.                           *)
(***************************************************************************)
EXTENDS Integers, Sequences

DART_API_DL_MAJOR_VERSION == 2

\* The symbols asked for, and those that a nop of the bridge's stands for.
DART_NATIVE_API_DL_SYMBOLS ==
  {"Dart_PostCObject", "Dart_PostInteger", "Dart_NewNativePort", "Dart_CloseNativePort"}
DART_API_DL_SYMBOLS ==
  {"Dart_IsError", "Dart_IsApiError", "Dart_IsUnhandledExceptionError",
   "Dart_IsCompilationError", "Dart_IsFatalError", "Dart_GetError",
   "Dart_ErrorHasException", "Dart_ErrorGetException", "Dart_ErrorGetStackTrace",
   "Dart_NewApiError", "Dart_NewCompilationError", "Dart_NewUnhandledExceptionError",
   "Dart_PropagateError", "Dart_HandleFromPersistent", "Dart_HandleFromWeakPersistent",
   "Dart_NewPersistentHandle", "Dart_SetPersistentHandle", "Dart_DeletePersistentHandle",
   "Dart_NewWeakPersistentHandle", "Dart_DeleteWeakPersistentHandle",
   "Dart_NewFinalizableHandle", "Dart_DeleteFinalizableHandle", "Dart_CurrentIsolate",
   "Dart_ExitIsolate", "Dart_EnterIsolate", "Dart_GetMainPortId", "Dart_Post",
   "Dart_NewSendPort", "Dart_NewSendPortEx", "Dart_SendPortGetId", "Dart_SendPortGetIdEx",
   "Dart_GetCurrentThreadOwnsIsolate", "Dart_EnterScope", "Dart_ExitScope",
   "Dart_IsNull", "Dart_Null"}
DART_API_DEPRECATED_DL_SYMBOLS ==
  {"Dart_UpdateExternalSize", "Dart_UpdateFinalizableExternalSize"}
DART_API_ALL_DL_SYMBOLS == DART_NATIVE_API_DL_SYMBOLS \cup DART_API_DL_SYMBOLS

\* A DartApi and its DartApiEntry table.
IsDartApi(data) ==
  /\ {data.major, data.minor} \subseteq Nat
  /\ \A i \in DOMAIN data.functions : DOMAIN data.functions[i] = {"name", "function"}

\* The pointers before any call.
NULL == "NULL"
Undefined_DL ==
  [s \in DART_API_ALL_DL_SYMBOLS \cup DART_API_DEPRECATED_DL_SYMBOLS |-> NULL]

\* Dart_UpdateExternalSize_Deprecated() and its like.
Nop == "nop"

\* The first entry of the name.
FindFunctionPointer(entries, name) ==
  LET found == {i \in DOMAIN entries : entries[i].name = name}
  IN  IF found = {} THEN NULL
      ELSE entries[CHOOSE i \in found : \A j \in found : i <= j].function

\* Another major version is refused and leaves every pointer as it was; another
\* minor version may lack some symbols.
Dart_InitializeApiDL(data) ==
  IF data.major # DART_API_DL_MAJOR_VERSION
  THEN [result |-> -1, dl |-> Undefined_DL]
  ELSE [result |-> 0,
        dl |-> [s \in DOMAIN Undefined_DL |->
                  IF s \in DART_API_DEPRECATED_DL_SYMBOLS THEN Nop
                  ELSE FindFunctionPointer(data.functions, s)]]

\* gopro_bridge_init(): the result is dropped.
gopro_bridge_init(data) == Dart_InitializeApiDL(data).dl

=============================================================================
