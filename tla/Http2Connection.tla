-------------------------- MODULE Http2Connection ---------------------------
(***************************************************************************)
(* The TLS connection between the client and the server as both see it: a  *)
(* FIFO of frames in each direction, which holds Cap frames (socket        *)
(* buffers; a write blocks while they are full), and the two ends' closes. *)
(***************************************************************************)
EXTENDS Integers, Sequences

CONSTANT Cap   \* frames a direction can hold

ASSUME CapAssumption == Cap \in Nat \ {0}

VARIABLES
  c2s, s2c,    \* frames in flight to the server and to the client
  c_closed,    \* the client has closed the connection
  s_closed     \* the server has closed the connection

connection == <<c2s, s2c, c_closed, s_closed>>

ConnectionInit == /\ c2s = <<>> /\ s2c = <<>>
                  /\ c_closed = FALSE /\ s_closed = FALSE

=============================================================================
