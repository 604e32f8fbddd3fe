----------------------------- MODULE MCRelayHub -----------------------------
\* The relay of one Mac for TLC: connections of the Mac (h's) and of a browser
\* (c's), which nothing tells apart.
EXTENDS RelayHub, TLC

CONSTANTS h1, h2, c1, c2, b1, a1

\* The device behind each socket, and the account of the browser.
HostTwo     == (h1 :> Mac) @@ (h2 :> Mac) @@ (c1 :> b1)
BrowserPair == (c1 :> b1) @@ (c2 :> b1)
OneAccount  == b1 :> a1

MacSymmetry     == Permutations({h1, h2})
BrowserSymmetry == Permutations({c1, c2})
=============================================================================
