------------------------------- MODULE EntMusic -------------------------------
(*****************************************************************************)
(* musics: songs, with an id given by the operator and no default for it.    *)
(*****************************************************************************)
Fields == {"created_at", "updated_at", "name", "artist", "composer", "bpm",
           "duration_seconds", "genre", "description", "is_recommended",
           "is_free", "unlock_level", "release_date", "is_active"}
AddFields == {"bpm", "duration_seconds", "unlock_level"}
ClearFields == {"composer", "genre", "description", "release_date"}
SetFields == Fields
ResetFields == Fields
Edges ==
  [single |-> << >>,
   many |-> [stages |-> <<"stage", "music_id">>,
            records |-> <<"record", "music_id">>]]
Slots ==
  [counters |-> AddFields, nullables |-> ClearFields, parents |-> {},
   many |-> DOMAIN Edges.many]

Table ==
  [notNull |-> (Fields \ ClearFields) \cup {"id"}, null |-> ClearFields,
   filled |-> {"duration_seconds", "is_recommended", "is_free", "unlock_level",
               "is_active"}, unlinked |-> {}]
Declared ==
  [optional |-> ClearFields, immutable |-> {"id", "created_at"}, valid |-> {},
   stamped |-> {"updated_at"}]
Selected == [columns |-> Fields \cup {"id"}, fks |-> {}]
Scans == Selected.columns

CreateOffers == [set |-> Fields \cup {"id"}, many |-> Slots.many]
CreateFills ==
  [defaults |-> Fields \ (ClearFields \cup {"name", "artist", "bpm"}),
   required |-> Fields \ ClearFields, parents |-> {}, valid |-> {}]
CreateWrites ==
  [set |-> Fields \cup {"id"}, parents |-> {}, many |-> Slots.many]
UpdateOffers ==
  [set |-> Fields \ {"created_at"}, add |-> AddFields, clear |-> ClearFields,
   unlink |-> {}, many |-> Slots.many]
UpdateFills == [defaults |-> {"updated_at"}, valid |-> {}, parents |-> {}]
UpdateWrites ==
  [set |-> Fields \ {"created_at"}, add |-> AddFields, clear |-> ClearFields,
   parents |-> {}, many |-> Slots.many]
UpdateOneOffers == UpdateOffers
UpdateOneFills == UpdateFills
UpdateOneWrites == UpdateWrites
Loads ==
  [single |-> DOMAIN Edges.single, withFKs |-> {}, many |-> DOMAIN Edges.many,
   childFKs |-> {"records"}]

Client ==
  [fields |-> Fields, addFields |-> AddFields, clearFields |-> ClearFields,
   setFields |-> SetFields, resetFields |-> ResetFields, edges |-> Edges,
   slots |-> Slots, table |-> Table, declared |-> Declared,
   selected |-> Selected, scans |-> Scans, loads |-> Loads,
   offers |-> [create |-> CreateOffers, update |-> UpdateOffers,
               updateOne |-> UpdateOneOffers],
   fills |-> [create |-> CreateFills, update |-> UpdateFills,
              updateOne |-> UpdateOneFills],
   writes |-> [create |-> CreateWrites, update |-> UpdateWrites,
               updateOne |-> UpdateOneWrites]]
===============================================================================
