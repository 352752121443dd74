--------------------------- MODULE MCStateService ---------------------------
EXTENDS StateService, TLC

CONSTANTS c1, c2, s1, s2

\* One server and its two callers, or two servers with one caller each.
OneServer == [c \in Caller |-> s1]
TwoServers == (c1 :> s1) @@ (c2 :> s2)

=============================================================================
