------------------------------ MODULE MCHostsFile ------------------------------
EXTENDS HostsFile, TLC

CONSTANTS u1, u2, n1, n2

\* Two client processes, each of a server of its own.
OneNameEach == u1 :> {n1} @@ u2 :> {n2}

\* Two client processes, as the service and the desktop app, of one server.
OneNameForBoth == [u \in {u1, u2} |-> {n1}]

\* One client, of a server that was renamed from n2 to n1, or from n1 to n2.
Renamed == [u \in {u1} |-> {n1, n2}]

\* Nothing tells the addresses apart, nor the two processes with their names.
Swap == u1 :> u2 @@ u2 :> u1 @@ n1 :> n2 @@ n2 :> n1
Symmetry == {p @@ q : p \in Permutations(IPs), q \in {<<>>, Swap}}

NoPrefix == {}
Prefix == {<<n1, n2>>}
=============================================================================
