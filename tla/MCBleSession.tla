---------------------------- MODULE MCBleSession ----------------------------
(* BleSession for model checking: the keep-alive, an ordinary status query,  *)
(* an ordinary command and a fastpass protobuf command, which shares its     *)
(* leading byte with the ordinary one on another characteristic.             *)
EXTENDS BleSession

MCCmds == {"ka", "status", "preset", "network"}
MCSent == [ka      |-> Command(kSettings, keep_alive_payload, FALSE),
           status  |-> Command(kQuery, <<19, 8, 10>>, FALSE),
           preset  |-> Command(kCommand, <<2, 4>>, FALSE),
           network |-> Command(kNetwork, <<2, 5>>, TRUE)]
MCCmdId == [c \in MCCmds |-> id_of(MCSent[c])]
MCCmdPrio == [ka |-> "kKeepAlive", status |-> "kQueued", preset |-> "kQueued",
              network |-> "kFastpass"]

Says(b, e) == [busy |-> b, encoding |-> e]
Msg(bytes, says) == [bytes |-> bytes, says |-> says]
YesNo == <<"no", "yes">>

\* Both statuses, either value.
Both(cmd) ==
  {Msg(<<cmd, 0, 8, 1, b, 10, 1, e>>, Says(YesNo[b + 1], YesNo[e + 1])) : b, e \in {0, 1}}

\* As well: one alone; an unknown id first; a registered status without a
\* value; too short, and truncated in the second entry.
Statuses(cmd) ==
  Both(cmd)
    \cup {Msg(<<cmd, 0, 10, 2, 0, 1>>, Says("none", "yes")),
          Msg(<<cmd, 0, 99, 1, 7, 8, 1, 0>>, Says("no", "none")),
          Msg(<<cmd, 0, 8, 0, 10, 1, 0>>, Says("none", "no")),
          Msg(<<cmd>>, Says("none", "none")),
          Msg(<<cmd, 0, 8, 1, 0, 10, 1>>, Says("none", "none"))}
Other(bytes) == Msg(bytes, Says("none", "none"))

MCReplies == [ka |-> {Other(<<91, 0>>)}, status |-> Both(19),
              preset |-> {Other(<<2, 0>>)}, network |-> {Other(<<2, 133, 8, 1>>)}]

\* Registered statuses; a setting with a status' id; the notification of a
\* scan, of the feature of the protobuf command; its bytes elsewhere.
MCPushes == ({kQuery} \X (Statuses(147) \cup {Other(<<146, 0, 8, 1, 0, 10, 1, 0>>)}))
              \cup {<<kNetwork, Other(<<2, 11, 8, 1>>)>>, <<kSettings, Other(<<2, 133, 8, 1>>)>>}

ASSUME Hypotheses == Understood /\ Unambiguous /\ Timely

=============================================================================
