----------------------------- MODULE MCCodecs ------------------------------
(* Bytes of two bits, lengths of two bytes (so that fourteen bytes are too  *)
(* many), and at least one sample for every specialisation.                 *)
EXTENDS Codecs

Two == Simple(2)
MCSamples ==
  {<<Two, <<3, 1>>>>, <<Bool, TRUE>>, <<Bool, FALSE>>, <<String, << >>>>,
   <<String, <<2, 0, 1>>>>, <<Time, <<7, 12>>>>,
   <<Vector(Two), << >>>>, <<Vector(Two), <<<<1, 2>>, <<3, 0>>>>>>,
   <<Vector(Bool), <<TRUE, FALSE, TRUE>>>>, <<Vector(Time), <<<<1, 15>>, <<0, 3>>>>>>,
   <<Vector(Time), << >>>>, <<Vector(String), <<<<1>>, << >>, <<2, 3>>>>>>,
   <<Array(Two, 3), <<<<0, 1>>, <<2, 3>>, <<1, 1>>>>>>,
   <<Array(Time, 2), <<<<4, 5>>, <<6, 7>>>>>>, <<Array(Bool, 2), <<FALSE, TRUE>>>>,
   <<Array(String, 2), <<<<3>>, <<1, 2>>>>>>,
   <<Vector(Vector(Simple(1))), <<<<<<1>>, <<2>>>>, << >>>>>>,
   <<Struct(<<Bool, String, Vector(Two)>>), <<TRUE, <<1>>, <<<<2, 2>>>>>>>>,
   <<Vector(Struct(<<Bool, Two>>)), <<<<TRUE, <<0, 3>>>>, <<FALSE, <<1, 0>>>>>>>>,
   <<Array(Struct(<<Two, Array(Bool, 2)>>), 2),
     <<<<<<1, 1>>, <<TRUE, TRUE>>>>, <<<<2, 0>>, <<FALSE, TRUE>>>>>>>>,
   <<Vector(Two), [i \in 1 .. 7 |-> <<1, 3>>]>>}
\* At least two values of every type, of different lengths where they have one.
Sized == Struct(<<String, Vector(Two), Bool>>)
Grid == Vector(Struct(<<Bool, Vector(Simple(1))>>))
MCDeviceSamples ==
  {<<Sized, <<s, v, TRUE>>>> : s \in {<< >>, <<1>>, <<3, 2, 1>>},
                              v \in {<< >>, <<<<1, 2>>>>, <<<<3, 3>>, <<0, 1>>>>}}
  \cup {<<Vector(String), v>> : v \in {<< >>, <<<<2>>, <<1, 3>>>>, <<<<3>>, << >>, <<1>>>>}}
  \cup {<<Array(Struct(<<Vector(Bool), Bool>>), 2), <<<<v, TRUE>>, <<w, FALSE>>>>>> :
          v, w \in {<< >>, <<TRUE>>, <<FALSE, TRUE>>}}
  \cup {<<Struct(<<Time, Vector(Bool)>>), <<<<1, 12>>, v>>>> : v \in {<< >>, <<TRUE>>}}
  \cup {<<Grid, <<<<TRUE, v>>, <<FALSE, w>>>>>> : v, w \in {<< >>, <<<<1>>>>, <<<<2>>, <<3>>>>}}
\* Two radios, one with an address that is escaped; data that is escaped, and
\* data whose frame has a checksum that is; a transmit status, a modem status
\* and samples of a digital and an analog channel.
MCNodes == {<<0, 1>>, <<0, 17>>}
MCTraffic == {[src |-> <<0, 1>>, data |-> <<126, 1>>], [src |-> <<0, 1>>, data |-> <<2, 19>>],
              [src |-> <<0, 17>>, data |-> <<125>>], [src |-> <<0, 5>>, data |-> <<7>>],
              [src |-> <<0, 1>>, data |-> <<216>>]}
MCReports == {<<137, 48, 0>>, <<138, 6>>, <<131, 0, 1, 40, 0, 1, 2, 1, 0, 1, 0, 200>>}
MCChunks == {<<125, 126>>, <<3>>}
\* One that has all hashes, one longer than the read buffer and one without the
\* hash of the second half of a service.
MCDescriptions ==
  {[of |-> <<<<"p">>, <<"t">>, <<"t">>>>, long |-> FALSE, hashes |-> {"", "_Request", "_Response"}],
   [of |-> <<<<"p">>, <<"p">>, <<"t", "p">>>>, long |-> TRUE, hashes |-> {""}],
   [of |-> <<<<"t">>, <<"t">>, <<"p">>>>, long |-> FALSE, hashes |-> {"", "_Request"}],
   [of |-> <<<<"t">>, <<"p">>, <<"t">>>>, long |-> TRUE, hashes |-> {"", "_Request", "_Response"}]}
MCConverterTypes == {<<"p", "::", "t", "::", "t">>, <<"t", "::", "t", "::", "p">>,
                     <<"t", "::", "p", "::", "t">>}
MCScales == {<<2, 1>>, <<-1, 1>>, <<1, 2>>}
============================================================================
