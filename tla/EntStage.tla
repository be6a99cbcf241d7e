------------------------------- MODULE EntStage -------------------------------
(*****************************************************************************)
(* stages: the levels of a song, with an id given by the operator and no     *)
(* default for it.                                                           *)
(*****************************************************************************)
Fields == {"created_at", "updated_at", "music_id", "level_name", "difficulty",
           "total_notes", "max_combo", "is_active"}
AddFields == {"difficulty", "total_notes", "max_combo"}
ClearFields == {}
SetFields == Fields
ResetFields == Fields
Edges ==
  [single |-> [music |-> "music_id"],
   many |-> [records |-> <<"record", "stage_id">>]]
Slots ==
  [counters |-> AddFields, nullables |-> {}, parents |-> {"music_id"},
   many |-> DOMAIN Edges.many]

Table ==
  [notNull |-> Fields \cup {"id"}, null |-> {}, filled |-> {"is_active"},
   unlinked |-> {}]
Declared ==
  [optional |-> {}, immutable |-> {"id", "created_at"},
   valid |-> {"level_name"}, stamped |-> {"updated_at"}]
Selected == [columns |-> Fields \cup {"id"}, fks |-> {}]
Scans == Selected.columns

CreateOffers == [set |-> Fields \cup {"id"}, many |-> Slots.many]
CreateFills ==
  [defaults |-> {"created_at", "updated_at", "is_active"}, required |-> Fields,
   parents |-> {"music_id"}, valid |-> {"level_name"}]
CreateWrites ==
  [set |-> (Fields \ Slots.parents) \cup {"id"}, parents |-> {"music_id"},
   many |-> Slots.many]
UpdateOffers ==
  [set |-> Fields \ {"created_at"}, add |-> AddFields, clear |-> {},
   unlink |-> {"music_id"}, many |-> Slots.many]
UpdateFills ==
  [defaults |-> {"updated_at"}, valid |-> {"level_name"},
   parents |-> {"music_id"}]
UpdateWrites ==
  [set |-> Fields \ {"created_at", "music_id"}, add |-> AddFields,
   clear |-> {}, parents |-> {"music_id"}, many |-> Slots.many]
UpdateOneOffers == UpdateOffers
UpdateOneFills == UpdateFills
UpdateOneWrites == UpdateWrites
Loads ==
  [single |-> DOMAIN Edges.single, withFKs |-> {}, many |-> DOMAIN Edges.many,
   childFKs |-> {"records"}]

Client ==
  [fields |-> Fields, addFields |-> AddFields, clearFields |-> ClearFields,
   setFields |-> SetFields, resetFields |-> ResetFields, edges |-> Edges,
   slots |-> Slots, table |-> Table, declared |-> Declared,
   selected |-> Selected, scans |-> Scans, loads |-> Loads,
   offers |-> [create |-> CreateOffers, update |-> UpdateOffers,
               updateOne |-> UpdateOneOffers],
   fills |-> [create |-> CreateFills, update |-> UpdateFills,
              updateOne |-> UpdateOneFills],
   writes |-> [create |-> CreateWrites, update |-> UpdateWrites,
               updateOne |-> UpdateOneWrites]]
===============================================================================
