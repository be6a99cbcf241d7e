--------------------------- MODULE EntUserPurchase ----------------------------
(*****************************************************************************)
(* user_purchases: who bought what, also the link table of the edges         *)
(* purchasers and purchased_products.                                        *)
(*****************************************************************************)
Fields == {"created_at", "updated_at", "user_id", "product_id",
           "purchase_date"}
AddFields == {}
ClearFields == {}
SetFields == Fields
ResetFields == Fields
Edges ==
  [single |-> [user |-> "user_id", product |-> "product_id"], many |-> << >>]
Slots ==
  [counters |-> {}, nullables |-> {}, parents |-> {"user_id", "product_id"},
   many |-> DOMAIN Edges.many]

Table ==
  [notNull |-> Fields \cup {"id"}, null |-> {}, filled |-> {}, unlinked |-> {}]
Declared ==
  [optional |-> {}, immutable |-> {"id", "created_at"}, valid |-> {},
   stamped |-> {"updated_at"}]
Selected == [columns |-> Fields \cup {"id"}, fks |-> {}]
Scans == Selected.columns

CreateOffers == [set |-> Fields \cup {"id"}, many |-> {}]
CreateFills ==
  [defaults |-> (Fields \ Slots.parents) \cup {"id"}, required |-> Fields,
   parents |-> Slots.parents, valid |-> {}]
CreateWrites ==
  [set |-> (Fields \ Slots.parents) \cup {"id"}, parents |-> Slots.parents,
   many |-> {}]
UpdateOffers ==
  [set |-> Fields \ {"created_at"}, add |-> {}, clear |-> {},
   unlink |-> Slots.parents, many |-> {}]
UpdateFills ==
  [defaults |-> {"updated_at"}, valid |-> {}, parents |-> Slots.parents]
UpdateWrites ==
  [set |-> {"updated_at", "purchase_date"}, add |-> {}, clear |-> {},
   parents |-> Slots.parents, many |-> {}]
UpdateOneOffers == UpdateOffers
UpdateOneFills == UpdateFills
UpdateOneWrites == UpdateWrites
Loads ==
  [single |-> DOMAIN Edges.single, withFKs |-> {}, many |-> DOMAIN Edges.many,
   childFKs |-> {}]

Client ==
  [fields |-> Fields, addFields |-> AddFields, clearFields |-> ClearFields,
   setFields |-> SetFields, resetFields |-> ResetFields, edges |-> Edges,
   slots |-> Slots, table |-> Table, declared |-> Declared,
   selected |-> Selected, scans |-> Scans, loads |-> Loads,
   offers |-> [create |-> CreateOffers, update |-> UpdateOffers,
               updateOne |-> UpdateOneOffers],
   fills |-> [create |-> CreateFills, update |-> UpdateFills,
              updateOne |-> UpdateOneFills],
   writes |-> [create |-> CreateWrites, update |-> UpdateWrites,
               updateOne |-> UpdateOneWrites]]
===============================================================================
