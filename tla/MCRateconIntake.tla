---------------------------- MODULE MCRateconIntake ----------------------------
(* Two mails on one load, one on another load that shares a place with it, and  *)
(* the replies: on the first mail's thread, with a rate confirmation to it, to  *)
(* an appointment mailed before, on a thread of its own, and to nothing we sent.*)
EXTENDS RateconIntake

Letter(subject, attachments, reply, thread, load, token, body) ==
  [subject |-> subject, attachments |-> attachments, reply |-> reply, thread |-> thread,
   load |-> load, token |-> token, body |-> body]

MCMail ==
  [first   |-> Letter("ratecon", 1, "none", "t1", "l1", Unset,
                      <<"div", "own", "hr", "fwdHeader", "old">>),
   second  |-> Letter("ratecon", 1, "subject", "t1", "l1", Unset, <<"own", "header">>),
   other   |-> Letter("ratecon", 1, "none", "t2", "l2", Unset, <<"header", "own">>),
   driver  |-> Letter("other", 0, "header", "t1", Unset, Unset,
                      <<"div", "own", "append", "hr", "fwdBlock", "div", "old", "quote", "old">>),
   plain   |-> Letter("other", 0, "header", "t1", Unset, Unset,
                      <<"own", "div", "fwdHeader", "old", "blockquote", "old">>),
   outlook |-> Letter("other", 0, "header", "t1", Unset, Unset,
                      <<"div", "own", "div", "fwdHeader", "old">>),
   agreed  |-> Letter("appointment", 0, "header", "t3", Unset, "l2",
                      <<"own", "on", "wrote", "old">>),
   signed  |-> Letter("ratecon", 2, "header", "t1", "l1", Unset, <<"quote", "old", "own">>),
   astray  |-> Letter("other", 0, "header", "t5", Unset, Unset, <<"own">>)]

MCMails == DOMAIN MCMail
MCPlaces == [l1 |-> {"north", "south"}, l2 |-> {"south"}]
MCAwaiting == <<[load |-> "l2", thread |-> "t4"]>>
\* The failures are spread over the mails.
MCFailing ==
  [first |-> {"outbound"}, second |-> {"upsert"}, driver |-> {"mail"}, plain |-> {},
   outlook |-> {}, other |-> {"fetch", "locations", "document"}, agreed |-> {"mail"},
   signed |-> {"document"}, astray |-> {}]

MCStreams ==
  {<<"first", "second", "driver">>, <<"first", "plain">>, <<"first", "other">>,
   <<"first", "signed">>, <<"other", "agreed">>, <<"first", "first">>, <<"first", "astray">>,
   <<"first", "outlook">>}
=============================================================================
