----------------------------- MODULE MCServerPanel -----------------------------
EXTENDS ServerPanel

CONSTANTS ip1, ip2

If(name, loopback, v4, ip) == [name |-> name, loopback |-> loopback, v4 |-> v4, ip |-> ip]

Loopback == If("lo", TRUE, TRUE, ip1)

\* eth0 has one of two addresses, behind others of its own and of other
\* interfaces; or it is there without an IPv4 address.
MCLayouts == {<<Loopback, If("wlan0", FALSE, TRUE, ip2), If("eth0", FALSE, TRUE, ip1)>>,
              <<Loopback, If("eth0", FALSE, FALSE, NoIp), If("eth0", FALSE, TRUE, ip2),
                If("eth0", FALSE, TRUE, ip1)>>,
              <<Loopback, If("wlan0", FALSE, TRUE, ip1), If("eth0", FALSE, FALSE, NoIp)>>}
=============================================================================
