--------------------------- MODULE MCSerialClient ---------------------------
EXTENDS SerialClient

CONSTANTS p1, p2, p3, c1, c2

MCPrograms == {{"pub", "sub"}, {"server"}, {"client", "sub"}, {"param", "sub"}}
MCParams == {p1, p2, p3}
MCAsked == <<{p1}, {p2, p3}>>
MCShape == (p1 :> <<"ints", 1>>) @@ (p2 :> <<"ints", 1>>) @@ (p3 :> <<"strings", 2>>)
MCCallers == {c1, c2}
=============================================================================
