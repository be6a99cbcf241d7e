------------------------------ MODULE EntTLevel -------------------------------
(*****************************************************************************)
(* t_level: the EXP each level asks for.  The database numbers the rows when *)
(* no id is given; updated_at and the other common columns are not there, so *)
(* an update fills and checks nothing.                                       *)
(*****************************************************************************)
Fields == {"require_exp"}
AddFields == Fields
ClearFields == {}
SetFields == Fields
ResetFields == Fields
Edges == [single |-> << >>, many |-> << >>]
Slots ==
  [counters |-> Fields, nullables |-> {}, parents |-> {},
   many |-> DOMAIN Edges.many]

Table ==
  [notNull |-> Fields \cup {"id"}, null |-> {}, filled |-> {"id"},
   unlinked |-> {}]
Declared ==
  [optional |-> {}, immutable |-> {"id"}, valid |-> {}, stamped |-> {}]
Selected == [columns |-> Fields \cup {"id"}, fks |-> {}]
Scans == Selected.columns

CreateOffers == [set |-> Fields \cup {"id"}, many |-> {}]
(* A bug: Create does not check that require_exp is there.                   *)
CreateFillsUnchecked ==
  [defaults |-> {}, required |-> {}, parents |-> {}, valid |-> {}]
CreateFills ==
  [defaults |-> {}, required |-> Fields, parents |-> {}, valid |-> {}]
CreateWrites == [set |-> Fields \cup {"id"}, parents |-> {}, many |-> {}]
UpdateOffers ==
  [set |-> Fields, add |-> Fields, clear |-> {}, unlink |-> {}, many |-> {}]
UpdateFills == [defaults |-> {}, valid |-> {}, parents |-> {}]
UpdateWrites ==
  [set |-> Fields, add |-> Fields, clear |-> {}, parents |-> {}, many |-> {}]
UpdateOneOffers == UpdateOffers
UpdateOneFills == UpdateFills
UpdateOneWrites == UpdateWrites
Loads ==
  [single |-> DOMAIN Edges.single, withFKs |-> {}, many |-> DOMAIN Edges.many,
   childFKs |-> {}]

Client ==
  [fields |-> Fields, addFields |-> AddFields, clearFields |-> ClearFields,
   setFields |-> SetFields, resetFields |-> ResetFields, edges |-> Edges,
   slots |-> Slots, table |-> Table, declared |-> Declared,
   selected |-> Selected, scans |-> Scans, loads |-> Loads,
   offers |-> [create |-> CreateOffers, update |-> UpdateOffers,
               updateOne |-> UpdateOneOffers],
   fills |-> [create |-> CreateFills, update |-> UpdateFills,
              updateOne |-> UpdateOneFills],
   writes |-> [create |-> CreateWrites, update |-> UpdateWrites,
               updateOne |-> UpdateOneWrites]]
===============================================================================
