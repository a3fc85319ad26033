------------------------- MODULE MCConnectionTracker -------------------------
EXTENDS ConnectionTracker, TLC
CONSTANTS client, other, server

OneClient == {<<client, server>>, <<server, client>>}
TwoClients == OneClient \cup {<<other, server>>, <<server, other>>}

\* A client opens, either side closes; ACK stands for every other packet.
PacketsOf(c) == {<<<<c, server>>, {"SYN"}>>, <<<<server, c>>, {"SYN", "ACK"}>>,
                 <<<<c, server>>, {"ACK"}>>, <<<<c, server>>, {"FIN", "ACK"}>>,
                 <<<<server, c>>, {"RST"}>>}
OneClientPackets == PacketsOf(client)
TwoClientPackets == PacketsOf(client) \cup PacketsOf(other)
DeviceSymmetry == Permutations(Devices)
=============================================================================
