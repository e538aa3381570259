---------------------------- MODULE DriverContacts ----------------------------
(***************************************************************************)
(* The drivers that the TMS knows as contacts, and how the driver that a    *)
(* carrier names is looked for among those of the carrier, picked, or       *)
(* created.                                                                *)
(*                                                                         *)
(* A contact is named by its place in contacts, by age; 0 stands for None.  *)
(* A name is its set of tokens, a phone its groups of digits, where "1" is  *)
(* the country.  Left out: phones without a digit, the only case in which   *)
(* contacts are searched by e-mail.                                         *)
(***************************************************************************)
EXTENDS Integers, FiniteSets, Sequences

CONSTANTS Directory,  \* the contacts at the start
          TabLimit,   \* contacts that the scan of a carrier's contacts tab gets to
          ListLimit   \* contacts that the scan of the tenant's contacts gets to

Names == {name \in SUBSET STRING : IsFiniteSet(name)}
Phones == Seq(STRING)
Contacts == [name : Names, phones : SUBSET Phones, driver : BOOLEAN, carrier : BOOLEAN]

ASSUME DirectoryAssumption == Directory \in Seq(Contacts)
ASSUME LimitAssumption == {TabLimit, ListLimit} \subseteq Nat

VARIABLE contacts \* name, phones, whether a driver and whether of the shipment's carrier

-----------------------------------------------------------------------------
(* Names and phones.                                                       *)

\* normalize_phone_digits.
Digits(phone) == IF Len(phone) > 1 /\ Head(phone) = "1" THEN Tail(phone) ELSE phone

PhonesMatch(a, b) == Digits(a) # <<>> /\ Digits(a) = Digits(b)

NameTokensMatch(inbound, name) == inbound # {} /\ inbound \subseteq name

Nested(a, b) == a # {} /\ b # {} /\ (a \subseteq b \/ b \subseteq a)

\* phone_duplicate_names_compatible.
NamesCompatible(ids) == \A i, j \in ids : Nested(contacts[i].name, contacts[j].name)

\* pick_phone_duplicate_contact: the richest name, then the lowest id.
Richest(ids) ==
  LET Tokens(i) == Cardinality(contacts[i].name) IN
  CHOOSE i \in ids : \A j \in ids : Tokens(i) > Tokens(j) \/ (Tokens(i) = Tokens(j) /\ i <= j)

-----------------------------------------------------------------------------
(* The searches; lost are the contacts whose own GET fails.                *)

HasPhone(i, phone) == \E p \in contacts[i].phones : PhonesMatch(phone, p)

\* contact_linked_to_carrier.
Linked == {i \in DOMAIN contacts : contacts[i].carrier}

\* _is_driver_role.
CarrierDrivers == {i \in Linked : contacts[i].driver}

\* _collect_ui_contacts_tab_matches reads so many pages of the carrier's tab.
Tab == {i \in Linked : Cardinality({j \in Linked : j <= i}) <= TabLimit}

\* driver_rows_from_contacts_tab.
TabDrivers == {i \in Tab : contacts[i].driver}

\* A contact that cannot be fetched is left out, without a word.
Hydrated(ids, lost) == ids \ lost

TabByPhone(phone, lost) == Hydrated({i \in TabDrivers : HasPhone(i, phone)}, lost)

TabByName(name, lost) ==
  Hydrated({i \in TabDrivers : NameTokensMatch(name, contacts[i].name)}, lost)

\* _paginate_contacts_list reads so many pages of the tenant's contacts.
Listed == {i \in DOMAIN contacts : i <= ListLimit}

\* _paginate_carrier_driver_contacts.
ListDrivers == Listed \cap CarrierDrivers

\* _driver_contacts_from_carrier: none if the carrier cannot be fetched.
Embedded(reached) == IF reached THEN CarrierDrivers ELSE {}

\* driver_contact_ids_from_shipment.
Referenced(assigned, lost) == Hydrated(assigned \cap CarrierDrivers, lost)

\* list_carrier_driver_contacts.
Pool(reached, assigned, lost) ==
  ListDrivers \cup Embedded(reached) \cup Referenced(assigned, lost)

\* search_carrier_driver_contacts.
PoolByName(name, reached, assigned, lost) ==
  {i \in Pool(reached, assigned, lost) : NameTokensMatch(name, contacts[i].name)}

\* _search_by_name.
SearchByName(name, reached, assigned, lost) ==
  LET pool == PoolByName(name, reached, assigned, lost) IN
  IF pool # {} THEN pool ELSE TabByName(name, lost)

-----------------------------------------------------------------------------
(* What becomes of the driver named in a block.                            *)

FollowUp == [outcome |-> "follow_up", id |-> 0]
Create == [outcome |-> "create", id |-> 0]
Found(i) == [outcome |-> "found", id |-> i]

\* _pick_only.
PickOnly(ids) ==
  IF Cardinality(ids) = 1 THEN Found(CHOOSE i \in ids : TRUE) ELSE FollowUp

\* Faulty variant, used as a mutant.
AllOfThem(ids, name) == ids

NarrowByName(ids, name) ==
  IF name = {} THEN ids ELSE {i \in ids : NameTokensMatch(name, contacts[i].name)}

\* Faulty variant, used as a mutant.
PickOrCreate(hits, name) ==
  LET candidates == NarrowByName(hits, name) IN
  IF candidates = {} THEN Create ELSE PickOnly(candidates)

\* Several contacts with one phone.
PickShared(hits, name) ==
  LET candidates == NarrowByName(hits, name) IN
  IF Cardinality(candidates) > 1 /\ NamesCompatible(candidates)
    THEN Found(Richest(candidates)) ELSE PickOnly(candidates)

\* _resolve_contact_id: a phone decides, the name of a single hit is not looked
\* at; a contact is created only for a name with a phone.
ResolveContact(block, reached, assigned, lost) ==
  LET hits == TabByPhone(block.phone, lost) IN
  IF block.phone = <<>> THEN PickOnly(SearchByName(block.name, reached, assigned, lost))
  ELSE IF Cardinality(hits) > 1 THEN PickShared(hits, block.name)
  ELSE IF hits = {} /\ block.name # {} THEN Create
  ELSE PickOnly(hits)

\* create_driver_contact, with turvo_phone_number.
Created(block) ==
  [name |-> block.name, phones |-> {Digits(block.phone)}, driver |-> TRUE, carrier |-> TRUE]

\* has_tms_searchable_fields.
Searchable(block) == block.name # {} \/ block.phone # <<>>

-----------------------------------------------------------------------------
SharePhone(i, j) == \E p \in contacts[j].phones : HasPhone(i, p)

(* No contact is created with the phone of a driver whom the carrier has    *)
(* already: a creation that timed out and was carried out all the same is   *)
(* found by the next reply, and not made again.                             *)
OneContactPerPhone ==
  \A j \in (Len(Directory) + 1)..Len(contacts) :
    \A i \in CarrierDrivers : i # j => ~SharePhone(i, j)
=============================================================================
