----------------------------- MODULE MCBringUp -----------------------------
(* BringUp for model checking: two required channels stand for the three,   *)
(* one for the optional pair.                                               *)
EXTENDS BringUp

\* Every default is kept but that of the services.
AskedServices == [connect |-> 0, services |-> 2, encrypt |-> 0, subscribe |-> 0,
                  initial |-> 0, max |-> 0]

OrderRequired == <<"command", "query">>
OrderAll      == <<"command", "query", "network">>
=============================================================================
