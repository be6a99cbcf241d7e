----------------------------- MODULE EntCharacter -----------------------------
(*****************************************************************************)
(* characters: sold as products; records.character_records points here, a    *)
(* column that the Record builders have no name for.                         *)
(*****************************************************************************)
Fields == {"created_at", "updated_at", "name", "description", "source"}
AddFields == {}
ClearFields == {"description"}
SetFields == Fields
ResetFields == Fields
Edges ==
  [single |-> << >>,
   many |-> [products |-> <<"product", "character_id">>,
            records |-> <<"record", "character_records">>]]
Slots ==
  [counters |-> {}, nullables |-> ClearFields, parents |-> {},
   many |-> DOMAIN Edges.many]

Table ==
  [notNull |-> (Fields \ ClearFields) \cup {"id"}, null |-> ClearFields,
   filled |-> {}, unlinked |-> {}]
Declared ==
  [optional |-> ClearFields, immutable |-> {"id", "created_at"},
   valid |-> {"name"}, stamped |-> {"updated_at"}]
Selected == [columns |-> Fields \cup {"id"}, fks |-> {}]
Scans == Selected.columns

CreateOffers == [set |-> Fields \cup {"id"}, many |-> Slots.many]
CreateFills ==
  [defaults |-> {"id", "created_at", "updated_at"},
   required |-> Fields \ ClearFields, parents |-> {}, valid |-> {"name"}]
CreateWrites ==
  [set |-> Fields \cup {"id"}, parents |-> {}, many |-> Slots.many]
UpdateOffers ==
  [set |-> Fields \ {"created_at"}, add |-> {}, clear |-> ClearFields,
   unlink |-> {}, many |-> Slots.many]
UpdateFills ==
  [defaults |-> {"updated_at"}, valid |-> {"name"}, parents |-> {}]
UpdateWrites ==
  [set |-> Fields \ {"created_at"}, add |-> {}, clear |-> ClearFields,
   parents |-> {}, many |-> Slots.many]
UpdateOneOffers == UpdateOffers
UpdateOneFills == UpdateFills
UpdateOneWrites == UpdateWrites
Loads ==
  [single |-> DOMAIN Edges.single, withFKs |-> {}, many |-> DOMAIN Edges.many,
   childFKs |-> {"products", "records"}]

Client ==
  [fields |-> Fields, addFields |-> AddFields, clearFields |-> ClearFields,
   setFields |-> SetFields, resetFields |-> ResetFields, edges |-> Edges,
   slots |-> Slots, table |-> Table, declared |-> Declared,
   selected |-> Selected, scans |-> Scans, loads |-> Loads,
   offers |-> [create |-> CreateOffers, update |-> UpdateOffers,
               updateOne |-> UpdateOneOffers],
   fills |-> [create |-> CreateFills, update |-> UpdateFills,
              updateOne |-> UpdateOneFills],
   writes |-> [create |-> CreateWrites, update |-> UpdateWrites,
               updateOne |-> UpdateOneWrites]]
===============================================================================
