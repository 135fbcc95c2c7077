--------------------------- MODULE MCCommandQueue ---------------------------
(* CommandQueue for model checking.  ka is the session's keep-alive, led an   *)
(* ordinary write of the same setting (hence the same id), q another ordinary *)
(* command and fp a fastpass one.                                            *)
EXTENDS CommandQueue

MCCmds == {"ka", "led", "q", "fp"}
MCCmdId == [c \in MCCmds |-> CASE c \in {"ka", "led"} -> 91 [] c = "q" -> 2 [] c = "fp" -> 1]
MCCmdPrio == [c \in MCCmds |-> CASE c = "ka" -> "kKeepAlive"
                                 [] c = "fp" -> "kFastpass"
                                 [] OTHER -> "kQueued"]
=============================================================================
