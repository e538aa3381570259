------------------------- MODULE MCDriverAssignment -------------------------
(* Instances of DriverAssignment for TLC.                                  *)
EXTENDS DriverAssignment, TLC

\* The whole schedule.
OnePlan == {Slots \cup {Escalation}}
\* What is left of it when the pickup is near.
AnyPlan == SUBSET (Slots \cup {Escalation})

Driver(name, phone) == [name |-> name, phones |-> {phone}, driver |-> TRUE, carrier |-> TRUE]
Block(name, phone) == [name |-> name, phone |-> phone, email |-> FALSE]

\* One driver, and replies that name this one, or one to be created.
OneDriver == <<Driver({"ann"}, <<"555">>)>>
TwoBlocks == {Block({"ann"}, <<>>), Block({"bo"}, <<"777">>)}

\* One driver entered twice; replies with that phone in another form, with a
\* name that is not known under it, with a driver to be created, by name
\* only, and with an e-mail only.
TwiceTheSame == <<Driver({"ann"}, <<"555">>), Driver({"ann", "lee"}, <<"1", "555">>)>>
SomeBlocks ==
  {Block({"ann"}, <<"1", "555">>), Block({"bo"}, <<"555">>), Block({"bo"}, <<"777">>),
   [name |-> {}, phone |-> <<>>, email |-> TRUE]}
=============================================================================
