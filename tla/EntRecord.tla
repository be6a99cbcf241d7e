------------------------------ MODULE EntRecord -------------------------------
(*****************************************************************************)
(* records: the plays.  client_record_id is the idempotency key of a batch,  *)
(* NULL for a single POST.                                                   *)
(*****************************************************************************)
Fields == {"created_at", "updated_at", "user_id", "music_id", "stage_id",
           "score", "perfect_count", "good_count", "bad_count", "miss_count",
           "max_combo", "accuracy", "rank", "is_full_combo", "is_perfect_play",
           "game_status", "additional_info", "is_valid", "client_record_id"}
AddFields == {"score", "perfect_count", "good_count", "bad_count",
              "miss_count", "max_combo", "accuracy"}
ClearFields == {"rank", "additional_info", "client_record_id"}
SetFields == Fields
ResetFields == Fields
Edges ==
  [single |-> [user |-> "user_id", music |-> "music_id", stage |-> "stage_id"],
   many |-> << >>]
Slots ==
  [counters |-> AddFields, nullables |-> ClearFields,
   parents |-> {"user_id", "music_id", "stage_id"}, many |-> DOMAIN Edges.many]

Table ==
  [notNull |-> (Fields \ ClearFields) \cup {"id"},
   null |-> ClearFields \cup {"character_records"},
   filled |-> Fields \ (ClearFields \cup {"created_at", "updated_at",
                                          "user_id", "music_id", "stage_id",
                                          "score"}),
   unlinked |-> {"character_records"}]
Declared ==
  [optional |-> ClearFields, immutable |-> {"id", "created_at"},
   valid |-> {"rank", "game_status", "client_record_id"},
   stamped |-> {"updated_at"}]
Selected == [columns |-> Fields \cup {"id"}, fks |-> {"character_records"}]
Scans == Selected.columns \cup Selected.fks

CreateOffers == [set |-> Fields \cup {"id"}, many |-> {}]
CreateFills ==
  [defaults |-> {"id", "created_at", "updated_at", "perfect_count",
                 "good_count", "bad_count", "miss_count", "max_combo",
                 "accuracy", "is_full_combo", "is_perfect_play", "game_status",
                 "is_valid"}, required |-> Fields \ ClearFields,
   parents |-> Slots.parents, valid |-> Declared.valid]
CreateWrites ==
  [set |-> (Fields \ Slots.parents) \cup {"id"}, parents |-> Slots.parents,
   many |-> {}]
UpdateOffers ==
  [set |-> Fields \ {"created_at"}, add |-> AddFields, clear |-> ClearFields,
   unlink |-> Slots.parents, many |-> {}]
UpdateFills ==
  [defaults |-> {"updated_at"}, valid |-> Declared.valid,
   parents |-> Slots.parents]
UpdateWrites ==
  [set |-> Fields \ (Slots.parents \cup {"created_at"}), add |-> AddFields,
   clear |-> ClearFields, parents |-> Slots.parents, many |-> {}]
UpdateOneOffers == UpdateOffers
(* A bug: UpdateOne validates nothing.                                       *)
UpdateOneFillsUnchecked == [UpdateFills EXCEPT !.valid = {}]
UpdateOneFills == UpdateFills
(* A bug: UpdateOne forgets the client's id.                                 *)
UpdateOneWritesNoId ==
  [UpdateWrites EXCEPT !.set = @ \ {"client_record_id"}]
UpdateOneWrites == UpdateWrites
Loads ==
  [single |-> DOMAIN Edges.single, withFKs |-> {}, many |-> DOMAIN Edges.many,
   childFKs |-> {}]

Client ==
  [fields |-> Fields, addFields |-> AddFields, clearFields |-> ClearFields,
   setFields |-> SetFields, resetFields |-> ResetFields, edges |-> Edges,
   slots |-> Slots, table |-> Table, declared |-> Declared,
   selected |-> Selected, scans |-> Scans, loads |-> Loads,
   offers |-> [create |-> CreateOffers, update |-> UpdateOffers,
               updateOne |-> UpdateOneOffers],
   fills |-> [create |-> CreateFills, update |-> UpdateFills,
              updateOne |-> UpdateOneFills],
   writes |-> [create |-> CreateWrites, update |-> UpdateWrites,
               updateOne |-> UpdateOneWrites]]
===============================================================================
