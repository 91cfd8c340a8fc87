---------------------------- MODULE MCDnsResolver ----------------------------
EXTENDS DnsResolver, TLC
CONSTANTS l1, l2, h1, h2
OnTwoLoops == h1 :> l1 @@ h2 :> l2
=============================================================================
