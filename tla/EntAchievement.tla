---------------------------- MODULE EntAchievement ----------------------------
(*****************************************************************************)
(* achievements: what can be unlocked, and the rewards as JSON.              *)
(*****************************************************************************)
Fields == {"created_at", "updated_at", "name", "description", "icon_url",
           "type", "conditions", "rewards", "points", "is_hidden", "is_active"}
AddFields == {"points"}
ClearFields == {"icon_url"}
SetFields == Fields
ResetFields == Fields
Edges ==
  [single |-> << >>,
   many |-> [user_achievements |-> <<"userachievement", "achievement_id">>]]
Slots ==
  [counters |-> AddFields, nullables |-> ClearFields, parents |-> {},
   many |-> DOMAIN Edges.many]

Table ==
  [notNull |-> (Fields \ ClearFields) \cup {"id"}, null |-> ClearFields,
   filled |-> {"points", "is_hidden", "is_active"}, unlinked |-> {}]
Declared ==
  [optional |-> ClearFields, immutable |-> {"id", "created_at"},
   valid |-> {"type"}, stamped |-> {"updated_at"}]
Selected == [columns |-> Fields \cup {"id"}, fks |-> {}]
Scans == Selected.columns

CreateOffers == [set |-> Fields \cup {"id"}, many |-> Slots.many]
CreateFills ==
  [defaults |-> {"id", "created_at", "updated_at", "points", "is_hidden",
                 "is_active"}, required |-> Fields \ ClearFields,
   parents |-> {}, valid |-> {"type"}]
CreateWrites ==
  [set |-> Fields \cup {"id"}, parents |-> {}, many |-> Slots.many]
UpdateOffers ==
  [set |-> Fields \ {"created_at"}, add |-> AddFields, clear |-> ClearFields,
   unlink |-> {}, many |-> Slots.many]
UpdateFills ==
  [defaults |-> {"updated_at"}, valid |-> {"type"}, parents |-> {}]
UpdateWrites ==
  [set |-> Fields \ {"created_at"}, add |-> AddFields, clear |-> ClearFields,
   parents |-> {}, many |-> Slots.many]
UpdateOneOffers == UpdateOffers
UpdateOneFills == UpdateFills
UpdateOneWrites == UpdateWrites
Loads ==
  [single |-> DOMAIN Edges.single, withFKs |-> {}, many |-> DOMAIN Edges.many,
   childFKs |-> {}]

Client ==
  [fields |-> Fields, addFields |-> AddFields, clearFields |-> ClearFields,
   setFields |-> SetFields, resetFields |-> ResetFields, edges |-> Edges,
   slots |-> Slots, table |-> Table, declared |-> Declared,
   selected |-> Selected, scans |-> Scans, loads |-> Loads,
   offers |-> [create |-> CreateOffers, update |-> UpdateOffers,
               updateOne |-> UpdateOneOffers],
   fills |-> [create |-> CreateFills, update |-> UpdateFills,
              updateOne |-> UpdateOneFills],
   writes |-> [create |-> CreateWrites, update |-> UpdateWrites,
               updateOne |-> UpdateOneWrites]]
===============================================================================
