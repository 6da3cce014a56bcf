-------------------------- MODULE MCPluginBoundary --------------------------
(***************************************************************************)
(* The machines of PluginBoundary, the wire format of builtin objects and  *)
(* the widget document, for TLC.  A behaviour runs one machine, chosen at  *)
(* the start, on an instance of its own, and leaves the others as they     *)
(* began.                                                                  *)
(***************************************************************************)
EXTENDS BuiltinCodecs, WidgetProtocol, PluginBoundary

VARIABLE machine   \* the one that runs

allVars ==
  <<machine, svcVars, ownVars, listVars, codec_vars, widgetVars, deltaVars, eventVars, treeVars, plugVars,
    parseVars>>

\* A small time, and the two ends of the range.
MCTimes == {25, MinTime, MaxTime}

Machines ==
  {"services", "ownership", "lists", "codecs", "widgets", "tables", "events", "trees", "plugins", "parsers"}

\* What the machines that do not run are left with.
AnyHost == CHOOSE x \in ServiceCalls!Hosts : TRUE
AnyCaller == CHOOSE x \in Callers : TRUE
AnyAccessor == CHOOSE x \in DOMAIN Accessors : TRUE
AnyAction == CHOOSE x \in Events!Built : TRUE
AnyFile == CHOOSE x \in Plugins!Files : TRUE
AnyPlugin == CHOOSE x \in Parsers!Plugins : TRUE

MCInit ==
  /\ machine \in Machines
  /\ host \in IF machine = "services" THEN ServiceCalls!Hosts ELSE {AnyHost}
  /\ len \in IF machine = "lists" THEN 0..MaxLen ELSE {0}
  /\ caller \in IF machine = "lists" THEN Callers ELSE {AnyCaller}
  /\ accessor \in IF machine = "widgets" THEN DOMAIN Accessors ELSE {AnyAccessor}
  /\ action \in IF machine = "events" THEN Events!Built ELSE {AnyAction}
  /\ items \in IF machine = "trees" THEN Trees!Snapshots ELSE {<<>>}
  /\ file \in IF machine = "plugins" THEN Plugins!Files ELSE {AnyFile}
  /\ plugin \in IF machine = "parsers" THEN Parsers!Plugins ELSE {AnyPlugin}
  /\ ServiceCalls!Fresh /\ Ownership!Init /\ Lists!Fresh /\ Init /\ EmptyDocument
  /\ Tables!Init /\ Events!Fresh /\ Trees!Fresh /\ Plugins!Fresh /\ Parsers!Fresh

\* Everything but machine m's own state stays as it is.
Rest(m) ==
  /\ UNCHANGED machine
  /\ m # "services" => UNCHANGED svcVars
  /\ m # "ownership" => UNCHANGED ownVars
  /\ m # "lists" => UNCHANGED listVars
  /\ m # "codecs" => UNCHANGED codec_vars
  /\ m # "widgets" => UNCHANGED widgetVars
  /\ m # "tables" => UNCHANGED deltaVars
  /\ m # "events" => UNCHANGED eventVars
  /\ m # "trees" => UNCHANGED treeVars
  /\ m # "plugins" => UNCHANGED plugVars
  /\ m # "parsers" => UNCHANGED parseVars

MCNext ==
  \/ machine = "services" /\ ServiceCalls!Next /\ Rest("services")
  \/ machine = "ownership" /\ Ownership!Next /\ Rest("ownership")
  \/ machine = "lists" /\ Lists!Next /\ Rest("lists")
  \/ machine = "codecs" /\ Next /\ Rest("codecs")
  \/ machine = "widgets" /\ WidgetNext /\ Rest("widgets")
  \/ machine = "tables" /\ Tables!Next /\ Rest("tables")
  \/ machine = "events" /\ Events!Next /\ Rest("events")
  \/ machine = "trees" /\ Trees!Next /\ Rest("trees")
  \/ machine = "plugins" /\ Plugins!Next /\ Rest("plugins")
  \/ machine = "parsers" /\ Parsers!Next /\ Rest("parsers")

MCSpec == MCInit /\ [][MCNext]_allVars
=============================================================================
