--------------------------- MODULE MCNegotiation ---------------------------
(* A device with a topic of its own, one it subscribes to, a service it     *)
(* calls and a service it offers; devices whose service finds a publisher's *)
(* slot but no subscriber's; and a device with topics and a service whose   *)
(* types the server does not know.                                          *)
EXTENDS Negotiation

Device(pubs, subs, sketch) ==
  [MAX_PUBLISHERS |-> pubs, MAX_SUBSCRIBERS |-> subs, sketch |-> sketch, foreign |-> {}]

Whole == Device(3, 3, <<<<"publisher", "chatter">>, <<"subscriber", "cmd">>,
                        <<"client", "query">>, <<"server", "led">>>>)
HalfServer == Device(2, 1, <<<<"publisher", "chatter">>, <<"subscriber", "cmd">>,
                             <<"server", "led">>, <<"publisher", "late">>>>)
HalfClient == Device(3, 1, <<<<"publisher", "chatter">>, <<"server", "led">>,
                             <<"client", "query">>, <<"subscriber", "cmd">>>>)
Foreign == [Device(3, 2, <<<<"publisher", "odd">>, <<"publisher", "chatter">>,
                           <<"subscriber", "cmd">>, <<"server", "led">>>>)
              EXCEPT !.foreign = {"odd", "cmd", "led"}]

MCDevices == {Whole, HalfServer, HalfClient, Foreign}
MCWhole == {Whole}
=============================================================================
