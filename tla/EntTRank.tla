------------------------------- MODULE EntTRank -------------------------------
(*****************************************************************************)
(* t_rank: the EXP coefficient of each rank.  The primary key is the column  *)
(* "Rank"; nothing checks that it is given.                                  *)
(*****************************************************************************)
Fields == {"coefficient"}
AddFields == Fields
ClearFields == {}
SetFields == Fields
ResetFields == Fields
Edges == [single |-> << >>, many |-> << >>]
Slots ==
  [counters |-> Fields, nullables |-> {}, parents |-> {},
   many |-> DOMAIN Edges.many]

Table ==
  [notNull |-> Fields \cup {"Rank"}, null |-> {}, filled |-> {},
   unlinked |-> {}]
Declared ==
  [optional |-> {}, immutable |-> {"Rank"}, valid |-> {}, stamped |-> {}]
Selected == [columns |-> Fields \cup {"Rank"}, fks |-> {}]
Scans == Selected.columns

CreateOffers == [set |-> Fields \cup {"Rank"}, many |-> {}]
CreateFills ==
  [defaults |-> {}, required |-> Fields, parents |-> {}, valid |-> {}]
CreateWrites == [set |-> Fields \cup {"Rank"}, parents |-> {}, many |-> {}]
UpdateOffers ==
  [set |-> Fields, add |-> Fields, clear |-> {}, unlink |-> {}, many |-> {}]
UpdateFills == [defaults |-> {}, valid |-> {}, parents |-> {}]
UpdateWrites ==
  [set |-> Fields, add |-> Fields, clear |-> {}, parents |-> {}, many |-> {}]
UpdateOneOffers == UpdateOffers
UpdateOneFills == UpdateFills
UpdateOneWrites == UpdateWrites
Loads ==
  [single |-> DOMAIN Edges.single, withFKs |-> {}, many |-> DOMAIN Edges.many,
   childFKs |-> {}]

Client ==
  [fields |-> Fields, addFields |-> AddFields, clearFields |-> ClearFields,
   setFields |-> SetFields, resetFields |-> ResetFields, edges |-> Edges,
   slots |-> Slots, table |-> Table, declared |-> Declared,
   selected |-> Selected, scans |-> Scans, loads |-> Loads,
   offers |-> [create |-> CreateOffers, update |-> UpdateOffers,
               updateOne |-> UpdateOneOffers],
   fills |-> [create |-> CreateFills, update |-> UpdateFills,
              updateOne |-> UpdateOneFills],
   writes |-> [create |-> CreateWrites, update |-> UpdateWrites,
               updateOne |-> UpdateOneWrites]]
===============================================================================
