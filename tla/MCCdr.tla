-------------------------------- MODULE MCCdr --------------------------------
(* Message definitions for the model of the device's encoder and decoder.   *)
EXTENDS CdrMessages

P(n) == [k |-> "prim", n |-> n]
S == [k |-> "string"]
F(n, t) == [k |-> "array", n |-> n, of |-> t]
V(t) == [k |-> "seq", of |-> t]
M(f) == [k |-> "msg", f |-> f]

\* Primitive values of width n: small numbers, so that a length read at a wrong
\* place stays small.
N(n, x) == [i \in 1..n |-> IF i = 1 THEN x ELSE 0]

MCCases == [
    \* bool, int16, uint32, uint8[] and a string (like Header and CompressedImage)
    image |-> [output |-> 33, input |-> 28,
        schema |-> M(<<P(1), P(2), S, V(P(1))>>),
        values |-> {<<N(1, 1), N(2, 2)>> \o t :
                    t \in {<<<<>>, <<N(1, 3)>>>>, <<<<7>>, <<>>>>,
                           <<<<7>>, <<N(1, 3), N(1, 4), N(1, 5)>>>>,
                           <<<<7, 8, 9>>, <<N(1, 3)>>>>,
                           <<<<7, 8, 9>>, <<N(1, 3), N(1, 4), N(1, 5)>>>>}}],
    \* strings of variable number between fixed arrays, in a nested message
    nested |-> [output |-> 38, input |-> 36,
        schema |-> M(<<M(<<P(1), F(2, P(2))>>), V(S), P(4)>>),
        values |-> {<<<<N(1, 1), <<N(2, 2), N(2, 3)>>>>, v, N(4, 5)>> :
                    v \in {<<>>, <<<<7>>>>, <<<<8, 9>>, <<7>>>>}}],
    \* messages of variable number (like geometry_msgs/Point32[])
    points |-> [output |-> 34, input |-> 36,
        schema |-> M(<<P(1), V(M(<<P(2), P(4)>>)), P(1)>>),
        values |-> {<<N(1, 1), v, N(1, 9)>> :
                    v \in {<<>>, <<<<N(2, 2), N(4, 3)>>>>,
                           <<<<N(2, 4), N(4, 5)>>, <<N(2, 6), N(4, 7)>>>>}}],
    \* a double and an array of variable length (like JointState); the first
    \* element is where the device looks for the length, 2^30 + 1 among others
    joints |-> [output |-> 28, input |-> 32,
        schema |-> M(<<P(8), V(P(4))>>),
        values |-> {<<N(8, 1), v>> : v \in {<<>>, <<N(4, 2)>>, <<N(4, 1), N(4, 2)>>, <<<<1, 0, 0, 64>>>>}}],
    \* the length of the array is out of the device's reach
    odometry |-> [output |-> 30, input |-> 22,
        schema |-> M(<<P(8), P(4), V(P(1))>>),
        values |-> {<<N(8, 1), N(4, 2), v>> : v \in {<<>>, <<N(1, 3)>>}}],
    doubles |-> [output |-> 34, input |-> 32,
        schema |-> M(<<P(1), V(P(8))>>),
        values |-> {<<N(1, 1), v>> : v \in {<<>>, <<N(8, 2)>>}}] ]
=============================================================================
