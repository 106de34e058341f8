----------------------------- MODULE MCClientLoop -----------------------------
(***************************************************************************)
(* The connections of ClientLoop that TLC looks at: every layer meets      *)
(* every encoder and a server with something to say of its own accord.     *)
(***************************************************************************)
EXTENDS ClientLoop

Connection(l, e, c, n) == [layer |-> l, encoder |-> e, chatter |-> c, others |-> n]

MCConnections ==
  {Connection("plain", "h264", TRUE, 0), Connection("plain", "other", FALSE, 1),
   Connection("records", "h264", FALSE, 0), Connection("records", "other", TRUE, 0)}
===============================================================================
