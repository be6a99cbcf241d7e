------------------------------ MODULE EntProduct ------------------------------
(*****************************************************************************)
(* products: one item or one character for sale.  The two foreign keys are   *)
(* edges without a field: Fields and the generic field methods do not know   *)
(* them.                                                                     *)
(*****************************************************************************)
Fields == {"created_at", "updated_at", "name", "description", "price", "type"}
AddFields == {"price"}
ClearFields == {"description"}
SetFields == Fields
ResetFields == Fields
Edges ==
  [single |-> [item |-> "item_id", character |-> "character_id"],
   many |-> [user_purchases |-> <<"userpurchase", "product_id">>]]
Slots ==
  [counters |-> {"price"}, nullables |-> ClearFields,
   parents |-> {"item_id", "character_id"}, many |-> DOMAIN Edges.many]

Table ==
  [notNull |-> (Fields \ ClearFields) \cup {"id"},
   null |-> ClearFields \cup Slots.parents, filled |-> {},
   unlinked |-> Slots.parents]
Declared ==
  [optional |-> ClearFields, immutable |-> {"id", "created_at"},
   valid |-> {"name", "price", "type"}, stamped |-> {"updated_at"}]
Selected == [columns |-> Fields \cup {"id"}, fks |-> Slots.parents]
Scans == Selected.columns \cup Selected.fks

CreateOffers ==
  [set |-> Fields \cup Slots.parents \cup {"id"}, many |-> Slots.many]
CreateFills ==
  [defaults |-> {"id", "created_at", "updated_at"},
   required |-> Fields \ ClearFields, parents |-> {}, valid |-> Declared.valid]
CreateWrites ==
  [set |-> Fields \cup {"id"}, parents |-> Slots.parents, many |-> Slots.many]
UpdateOffers ==
  [set |-> Slots.parents \cup {"updated_at", "name", "description", "price",
                               "type"}, add |-> {"price"},
   clear |-> ClearFields, unlink |-> Slots.parents, many |-> Slots.many]
UpdateFills ==
  [defaults |-> {"updated_at"}, valid |-> Declared.valid, parents |-> {}]
UpdateWrites ==
  [set |-> Fields \ {"created_at"}, add |-> {"price"}, clear |-> ClearFields,
   parents |-> Slots.parents, many |-> Slots.many]
UpdateOneOffers == UpdateOffers
UpdateOneFills == UpdateFills
UpdateOneWrites == UpdateWrites
(* A bug: the foreign keys are not selected when an edge is loaded.          *)
LoadsWithoutKeys ==
  [single |-> DOMAIN Edges.single, withFKs |-> {}, many |-> DOMAIN Edges.many,
   childFKs |-> {}]
Loads ==
  [single |-> DOMAIN Edges.single, withFKs |-> {"item", "character"},
   many |-> DOMAIN Edges.many, childFKs |-> {}]

Client ==
  [fields |-> Fields, addFields |-> AddFields, clearFields |-> ClearFields,
   setFields |-> SetFields, resetFields |-> ResetFields, edges |-> Edges,
   slots |-> Slots, table |-> Table, declared |-> Declared,
   selected |-> Selected, scans |-> Scans, loads |-> Loads,
   offers |-> [create |-> CreateOffers, update |-> UpdateOffers,
               updateOne |-> UpdateOneOffers],
   fills |-> [create |-> CreateFills, update |-> UpdateFills,
              updateOne |-> UpdateOneFills],
   writes |-> [create |-> CreateWrites, update |-> UpdateWrites,
               updateOne |-> UpdateOneWrites]]
===============================================================================
