----------------------------- MODULE MCPodPages -----------------------------
(***************************************************************************)
(* One shipment of three kinds; five pages: a rate confirmation, a bill of *)
(* lading that shows the pickup, a receipt that shows the delivery, a page *)
(* of the old layout, and one that shows another place.                    *)
(***************************************************************************)
EXTENDS PodPages

Text(name, address) == [name |-> name, address |-> address]
Block(label, name, address) == [label |-> label, name |-> name, address |-> address]

NoFields == [pickup |-> Text({}, {}), delivery |-> Text({}, {})]
NoTimes == [pickup |-> Unset, delivery |-> Unset]

MCPages == {"ratecon", "bol", "receipt", "old", "stray"}

MCContent ==
  [ratecon |-> [type |-> "RATE_CONFIRMATION", numbers |-> {"A"}, proof |-> {}, times |-> NoTimes,
                fields |-> NoFields,
                blocks |-> <<Block("pickup", {"mill"}, {"troy"})>>],
   bol |-> [type |-> "POD", numbers |-> {"A"}, proof |-> {}, fields |-> NoFields,
            times |-> [pickup |-> "Mon", delivery |-> Unset],
            blocks |-> <<Block("pickup", {"mill"}, {"troy"})>>],
   receipt |-> [type |-> "POD", numbers |-> {"A", "B"}, proof |-> {"stamp"}, fields |-> NoFields,
                times |-> [pickup |-> Unset, delivery |-> "Tue"],
                blocks |-> <<Block("delivery", {"depot"}, {"rome"})>>],
   old |-> [type |-> "POD", numbers |-> {"B"}, proof |-> {"receiver_signature"},
            times |-> [pickup |-> "Sun", delivery |-> "Tue"], blocks |-> <<>>,
            fields |-> [pickup |-> Text({"mill"}, {}), delivery |-> Text({"yard"}, {})]],
   stray |-> [type |-> "POD", numbers |-> {"A"}, proof |-> {}, fields |-> NoFields,
              times |-> NoTimes, blocks |-> <<Block(Unset, {"dock"}, {"ulm"})>>]]

MCAttachments ==
  {[kind |-> "pdf", pages |-> <<"bol", "ratecon", "receipt">>],
   [kind |-> "pdf", pages |-> <<"ratecon">>],
   [kind |-> "image", pages |-> <<"old">>],
   [kind |-> "other", pages |-> <<"stray">>]}

Stop(id, type, pos, name, address) ==
  [id |-> id, type |-> type, pos |-> pos, name |-> name, address |-> address]

Dates == [pickup |-> "Mon", delivery |-> "Tue"]

\* The same order at both ends; an order each and a second delivery; none.
MCShipments ==
  {[dates |-> Dates,
    stops |-> <<Stop("1", "pickup", <<"A">>, {"mill"}, {"troy"}),
                Stop("2", "delivery", <<"A">>, {"depot"}, {"rome"})>>],
   [dates |-> Dates,
    stops |-> <<Stop("1", "pickup", <<"A">>, {"mill"}, {"troy"}),
                Stop("2", "delivery", <<"B">>, {"depot"}, {"rome"}),
                Stop("3", "delivery", <<"C">>, {"yard"}, {"rome"})>>],
   [dates |-> [Dates EXCEPT !["delivery"] = Unset],
    stops |-> <<Stop("2", "delivery", <<>>, {}, {})>>]}
=============================================================================
