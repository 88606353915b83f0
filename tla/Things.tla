-------------------------------- MODULE Things --------------------------------
(***************************************************************************)
(* How RedstoneServer::launch makes device servers of the nodes of a tree, *)
(* and how properties and events find their way by the paths of nodes.     *)
(*                                                                         *)
(* A thing is a node with properties below it: its path is base, and it    *)
(* may have children host and port.  A property has the name of its node,  *)
(* is read or written, and may have a child that renames it.  A child is   *)
(* the set of its value, empty when there is none.                         *)
(***************************************************************************)
EXTENDS Integers, Sequences, FiniteSets, SequencesExt

ChildOr(child, default) ==
  IF child = {} THEN default ELSE CHOOSE value \in child : TRUE

\* A device is known by its address.
Url(thing) == <<ChildOr(thing.host, Last(thing.base)), ChildOr(thing.port, 80)>>

Path(thing, node) == Append(thing.base, node.name)
Property(node) == ChildOr(node.property, node.name)

Of(thing, kind) == {node \in thing.nodes : node.kind = kind}
PropertiesOf(things, url, kind) ==
  UNION {{Property(node) : node \in Of(thing, kind)} :
           thing \in {t \in things : Url(t) = url}}

\* Sources are looked at before sinks, and each in the order of a hash map: the
\* device has the path of the first thing at its address.
FirstThings(things, url) ==
  LET here == {t \in things : Url(t) = url}
      heard == {t \in here : Of(t, "source") # {}}
  IN  IF heard = {} THEN here ELSE heard

Devices(things) ==
  LET urls == {Url(t) : t \in things}
      bases == {t.base : t \in things}
  IN  {devices \in [urls -> [path : bases,
                             sources : {PropertiesOf(things, u, "source") : u \in urls},
                             sinks : {PropertiesOf(things, u, "sink") : u \in urls}]] :
         \A u \in urls :
           /\ \E t \in FirstThings(things, u) : devices[u].path = t.base
           /\ devices[u].sources = PropertiesOf(things, u, "source")
           /\ devices[u].sinks = PropertiesOf(things, u, "sink")}

\* Mutant of Route: things of one name in two places are the same.
RouteByName(devices, path) ==
  {u \in DOMAIN devices : Last(devices[u].path) = Last(Front(path))}

\* A property that is set: the device servers whose device is just above its path,
\* and the name that they are told.
Route(devices, path) == {u \in DOMAIN devices : devices[u].path = Front(path)}
Told(path) == Last(path)

\* An event of a property, and the values asked for over HTTP, which never goes to
\* another port than 80.
EventPath(devices, url, property) == Append(devices[url].path, property)
QueriedAt(url) == <<url[1], 80>>

\* What a device that is asked knows about: what the tree says of it.
Exposed(things, url) ==
  PropertiesOf(things, url, "source") \cup PropertiesOf(things, url, "sink")

SinkPaths(things) ==
  UNION {{Path(thing, node) : node \in Of(thing, "sink")} : thing \in things}
=============================================================================
