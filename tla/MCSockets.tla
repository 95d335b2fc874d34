----------------------------- MODULE MCSockets -----------------------------
(***************************************************************************)
(* Sockets on a small instance: values that a configuration cannot write.  *)
(***************************************************************************)
EXTENDS Sockets, TLC

MCGniazdoKalk == "k1" :> "local" @@ "k2" :> "tcp"

\* Words of four bits: -8..7.  One client tries every operation on the edges
\* of that range, and with 0 an unknown one too; the other interferes.
MCZadaniaKalk == "k1" :> ([op1 : {-8, -3, 7}, op2 : {-1, 2}, op : 1..4]
                            \union [op1 : {7}, op2 : {0}, op : 1..5])
                   @@ "k2" :> {[op1 |-> 3, op2 |-> 2, op |-> 1]}

\* PIDs 99, 123 and 4000; two clients share a socket.
MCGniazdoSumy == "k1" :> "tcp" @@ "k2" :> "tcp" @@ "k3" :> "local"
MCCyfry == "k1" :> <<9, 9>> @@ "k2" :> <<1, 2, 3>> @@ "k3" :> <<4, 0, 0, 0>>
=============================================================================
