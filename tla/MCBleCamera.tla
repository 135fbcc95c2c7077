---------------------------- MODULE MCBleCamera ----------------------------
(* BleCamera for model checking: an application that sends the status query  *)
(* and a protobuf command, and leaves the keep-alive's setting alone.        *)
EXTENDS BleCamera

MCAppCmds == {QueryCmd, Command(kNetwork, <<2, 5>>, TRUE)}
MCNotices == {[kind |-> "ready", ready |-> TRUE],
              [kind |-> "frame", channel |-> kNetwork, result |-> "kStrayCont"]}

ASSUME KeepAliveUnused == \A c \in AppCmds : id_of(c) # KeepAliveId

=============================================================================
