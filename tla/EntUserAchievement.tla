-------------------------- MODULE EntUserAchievement --------------------------
(*****************************************************************************)
(* user_achievements: who unlocked what.                                     *)
(*****************************************************************************)
Fields == {"created_at", "updated_at", "user_id", "achievement_id",
           "unlocked_at", "progress_data"}
AddFields == {}
ClearFields == {"progress_data"}
SetFields == Fields
ResetFields == Fields
Edges ==
  [single |-> [user |-> "user_id", achievement |-> "achievement_id"],
   many |-> << >>]
Slots ==
  [counters |-> {}, nullables |-> ClearFields,
   parents |-> {"user_id", "achievement_id"}, many |-> DOMAIN Edges.many]

Table ==
  [notNull |-> (Fields \ ClearFields) \cup {"id"}, null |-> ClearFields,
   filled |-> {}, unlinked |-> {}]
Declared ==
  [optional |-> ClearFields, immutable |-> {"id", "created_at"}, valid |-> {},
   stamped |-> {"updated_at"}]
Selected == [columns |-> Fields \cup {"id"}, fks |-> {}]
Scans == Selected.columns

CreateOffers == [set |-> Fields \cup {"id"}, many |-> {}]
CreateFills ==
  [defaults |-> {"id", "created_at", "updated_at", "unlocked_at"},
   required |-> Fields \ ClearFields, parents |-> Slots.parents, valid |-> {}]
CreateWrites ==
  [set |-> (Fields \ Slots.parents) \cup {"id"}, parents |-> Slots.parents,
   many |-> {}]
UpdateOffers ==
  [set |-> Fields \ {"created_at"}, add |-> {}, clear |-> ClearFields,
   unlink |-> Slots.parents, many |-> {}]
UpdateFills ==
  [defaults |-> {"updated_at"}, valid |-> {}, parents |-> Slots.parents]
UpdateWrites ==
  [set |-> Fields \ (Slots.parents \cup {"created_at"}), add |-> {},
   clear |-> ClearFields, parents |-> Slots.parents, many |-> {}]
UpdateOneOffers == UpdateOffers
UpdateOneFills == UpdateFills
UpdateOneWrites == UpdateWrites
Loads ==
  [single |-> DOMAIN Edges.single, withFKs |-> {}, many |-> DOMAIN Edges.many,
   childFKs |-> {}]

Client ==
  [fields |-> Fields, addFields |-> AddFields, clearFields |-> ClearFields,
   setFields |-> SetFields, resetFields |-> ResetFields, edges |-> Edges,
   slots |-> Slots, table |-> Table, declared |-> Declared,
   selected |-> Selected, scans |-> Scans, loads |-> Loads,
   offers |-> [create |-> CreateOffers, update |-> UpdateOffers,
               updateOne |-> UpdateOneOffers],
   fills |-> [create |-> CreateFills, update |-> UpdateFills,
              updateOne |-> UpdateOneFills],
   writes |-> [create |-> CreateWrites, update |-> UpdateWrites,
               updateOne |-> UpdateOneWrites]]
===============================================================================
