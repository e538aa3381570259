-------------------------- MODULE MCTenderIntake --------------------------
(* Instances of TenderIntake for TLC.                                      *)
EXTENDS TenderIntake, TLC

\* One mail with both workbooks and a second one of orders that is never read,
\* one with new locations and one without an account.
TheMail ==
  [both |-> [account |-> TRUE,
             files |-> <<[name |-> "customers_orders", book |-> "loads"],
                         [name |-> "delivery_location", book |-> "sites"],
                         [name |-> "customers_orders", book |-> "repeat"]>>],
   places |-> [account |-> TRUE,
               files |-> <<[name |-> "other", book |-> "sites"],
                           [name |-> "delivery_location", book |-> "moved"]>>],
   bare |-> [account |-> FALSE, files |-> <<[name |-> "customers_orders", book |-> "repeat"]>>]]

TheMails == DOMAIN TheMail

TwiceBoth == [both |-> 2, places |-> 1, bare |-> 1]

Row(order, position, product, quantity, unit, pack, place) ==
  [order |-> order, position |-> position, product |-> <<"text", product>>,
   quantity |-> <<"float", quantity>>, unit |-> <<"text", unit>>, pack |-> <<"text", pack>>,
   place |-> place, other |-> <<"text", "x">>]

F(n) == <<"float", n>>
T(n) == <<"text", n>>

\* Two orders: a position twice, a line twice under two positions, a position
\* that only its second row completes, a row with only a column that nobody
\* asks for, one without a position, a complete one without an order.
Loads ==
  <<Row(F("1"), F("10"), "gel", "5", "KG", "A7", T("71")),
    Row(T("1"), T("10"), "gel", "6", "KG", "A7", T("71")),
    Row(F("1"), F("20"), "gel", "5", "KG", "A7", T("71")),
    Row(F("1"), F("30"), "gel", "5", "LB", "B2", T("71")),
    Row(F("2"), F("10"), "gel", "5", "ST", "A7", T("72")),
    Row(F("2"), F("10"), "gel", "5", "KG", "A7", T("72")),
    [other |-> T("x")],
    Row(F("2"), F("20"), "col", "3", "LB", "A7", F("72")),
    Row(F("2"), T("half"), "col", "4", "LB", "A7", F("72")),
    Row(<<"blank", "">>, F("40"), "gel", "5", "KG", "A7", T("71"))>>

Repeat == <<Row(T("1"), F("10"), "gel", "5", "KG", "A7", F("71"))>>

Site(place, customer, city, state) ==
  [place |-> place, customer |-> T(customer), city |-> T(city), state |-> T(state)]

Sites == <<Site(F("71"), "Acme", "Waco", ""), Site(T("71"), "Other", "Waco", ""),
           Site(F("72"), "", "Ames", "IA")>>

Moved == <<Site(F("71"), "Acme South", "Hays", "")>>

Sheet(name, rows) == [name |-> name, rows |-> rows]

TheBook ==
  [loads |-> [sheets |-> <<Sheet("a", SubSeq(Loads, 1, 6)),
                                        Sheet("b", SubSeq(Loads, 7, 10))>>],
   repeat |-> [sheets |-> <<Sheet("a", Repeat)>>],
   sites |-> [sheets |-> <<Sheet("notes", Moved), Sheet("delivery locations", Sites)>>],
   moved |-> [sheets |-> <<Sheet("empty", <<>>), Sheet("s", Moved)>>]]

TheUnits == [KG |-> "kg", LB |-> "lbs"]
TheStates == [Waco |-> "TX"]
\* Nothing tells the workers apart.
Symmetry == Permutations(Workers)

Everything == {"publish", "transient", "fetch", "refuse", "insert", "read", "places", "persist", 
               "resolve", "enqueue"}
=============================================================================
