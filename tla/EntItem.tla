------------------------------- MODULE EntItem --------------------------------
(*****************************************************************************)
(* items: hats, canes and clothes that products sell.                        *)
(*****************************************************************************)
Fields == {"created_at", "updated_at", "name", "description", "effect_id",
           "type", "source"}
AddFields == {}
ClearFields == {"description", "effect_id"}
SetFields == Fields
ResetFields == Fields
Edges == [single |-> << >>, many |-> [products |-> <<"product", "item_id">>]]
Slots ==
  [counters |-> {}, nullables |-> ClearFields, parents |-> {},
   many |-> DOMAIN Edges.many]

Table ==
  [notNull |-> (Fields \ ClearFields) \cup {"id"}, null |-> ClearFields,
   filled |-> {}, unlinked |-> {}]
Declared ==
  [optional |-> ClearFields, immutable |-> {"id", "created_at"},
   valid |-> {"name", "type"}, stamped |-> {"updated_at"}]
Selected == [columns |-> Fields \cup {"id"}, fks |-> {}]
Scans == Selected.columns

CreateOffers == [set |-> Fields \cup {"id"}, many |-> Slots.many]
CreateFills ==
  [defaults |-> {"id", "created_at", "updated_at"},
   required |-> Fields \ ClearFields, parents |-> {}, valid |-> Declared.valid]
CreateWrites ==
  [set |-> Fields \cup {"id"}, parents |-> {}, many |-> Slots.many]
UpdateOffers ==
  [set |-> Fields \ {"created_at"}, add |-> {}, clear |-> ClearFields,
   unlink |-> {}, many |-> Slots.many]
UpdateFills ==
  [defaults |-> {"updated_at"}, valid |-> Declared.valid, parents |-> {}]
UpdateWrites ==
  [set |-> Fields \ {"created_at"}, add |-> {}, clear |-> ClearFields,
   parents |-> {}, many |-> Slots.many]
UpdateOneOffers == UpdateOffers
UpdateOneFills == UpdateFills
UpdateOneWrites == UpdateWrites
Loads ==
  [single |-> DOMAIN Edges.single, withFKs |-> {}, many |-> DOMAIN Edges.many,
   childFKs |-> {"products"}]

Client ==
  [fields |-> Fields, addFields |-> AddFields, clearFields |-> ClearFields,
   setFields |-> SetFields, resetFields |-> ResetFields, edges |-> Edges,
   slots |-> Slots, table |-> Table, declared |-> Declared,
   selected |-> Selected, scans |-> Scans, loads |-> Loads,
   offers |-> [create |-> CreateOffers, update |-> UpdateOffers,
               updateOne |-> UpdateOneOffers],
   fills |-> [create |-> CreateFills, update |-> UpdateFills,
              updateOne |-> UpdateOneFills],
   writes |-> [create |-> CreateWrites, update |-> UpdateWrites,
               updateOne |-> UpdateOneWrites]]
===============================================================================
