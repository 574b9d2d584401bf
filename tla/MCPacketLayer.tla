--------------------------- MODULE MCPacketLayer ----------------------------
EXTENDS PacketLayer

\* One command of each kind: answered at once, answered by an operation in one
\* packet and in pieces, not answered, not supported; binary data that looks
\* like an interrupt or an acknowledgement.
MCCommands == {<<"?">>, <<"g">>, <<"c">>, <<"v">>, <<"X", "etx">>, <<"X", "+">>}

MCValues == {"$", "#", "+", "-", "etx", "0", "1", "?", "g", "c", "v", "X", "S", "O", "K"}

MCCode == [b \in MCValues |->
             CASE b \in {"0", "S", "-"} -> 0
               [] b \in {"1", "g", "etx", "#"} -> 1
               [] b \in {"?", "c", "$", "K"} -> 2
               [] OTHER -> 3]

\* Checksums are counted in base 2.
MCDigit == (0 :> "0") @@ (1 :> "1")

=============================================================================
