----------------------------- MODULE MCRedstone -----------------------------
(***************************************************************************)
(* Small gateways to model-check Redstone on: one device where the clocks  *)
(* are the question, two where the gateway's turns are.                    *)
(***************************************************************************)
EXTENDS Redstone

Source(name) == [name |-> name, kind |-> "source", property |-> {}]
Sink(name) == [name |-> name, kind |-> "sink", property |-> {}]
Thing(base, host, nodes) == [base |-> base, host |-> host, port |-> {}, nodes |-> nodes]

\* One lamp at its own name, with a button that it senses two things of, or with none.
Lamp == {<<"lamp", 80>>}
OneLamp ==
  {{Thing(<<"hall", "lamp">>, {}, {Source("press"), Source("hold"), Sink("glow")})}}
PlainLamp == {{Thing(<<"hall", "lamp">>, {}, {Sink("glow")})}}

\* Two devices, one with a button.  Each is a lamp in its place, at the name of its host ...
TwoLamps == {<<"east", 80>>, <<"west", 80>>}
InPlaces ==
  {Thing(<<"hall", "lamp">>, {"east"}, {Source("button"), Sink("glow")}),
   Thing(<<"porch", "lamp">>, {"west"}, {Sink("glow")})}

\* ... or one of them is at a second place of the tree, with properties that have other
\* names than their nodes.
Muddled ==
  {Thing(<<"hall", "east">>, {}, {[Source("button") EXCEPT !.property = {"b1"}],
                                 Sink("glow")}),
   Thing(<<"attic", "spare">>, {"east"}, {Sink("tint")}),
   Thing(<<"porch", "west">>, {}, {[Sink("glow") EXCEPT !.property = {"tint"}]})}
TwoLampHouses == {InPlaces, Muddled}

\* Not in a run: a device that has values to ask for at another port.  They are asked
\* for at port 80 of its host, where nobody or somebody else answers.
TwoPorts == {<<"east", 80>>, <<"east", 8080>>}
PortHouses ==
  {{Thing(<<"hall", "lamp">>, {"east"}, {Source("button"), Sink("glow")}),
    [Thing(<<"porch", "lamp">>, {"east"}, {Source("button")}) EXCEPT !.port = {8080}]}}
=============================================================================
