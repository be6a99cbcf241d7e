----------------------------- MODULE EntEventLog ------------------------------
(*****************************************************************************)
(* event_logs: state changes the game reports; client_log_id is the          *)
(* idempotency key of a batch.                                               *)
(*****************************************************************************)
Fields == {"created_at", "updated_at", "user_id", "event_key", "state_before",
           "state_after", "changed_at", "client_log_id"}
AddFields == {}
ClearFields == {"client_log_id"}
SetFields == Fields
ResetFields == Fields
Edges == [single |-> [user |-> "user_id"], many |-> << >>]
Slots ==
  [counters |-> {}, nullables |-> ClearFields, parents |-> {"user_id"},
   many |-> DOMAIN Edges.many]

Table ==
  [notNull |-> (Fields \ ClearFields) \cup {"id"}, null |-> ClearFields,
   filled |-> {}, unlinked |-> {}]
Declared ==
  [optional |-> ClearFields, immutable |-> {"id", "created_at"},
   valid |-> ClearFields, stamped |-> {"updated_at"}]
Selected == [columns |-> Fields \cup {"id"}, fks |-> {}]
Scans == Selected.columns

CreateOffers == [set |-> Fields \cup {"id"}, many |-> {}]
CreateFills ==
  [defaults |-> {"id", "created_at", "updated_at"},
   required |-> Fields \ ClearFields, parents |-> {"user_id"},
   valid |-> ClearFields]
CreateWrites ==
  [set |-> (Fields \ Slots.parents) \cup {"id"}, parents |-> {"user_id"},
   many |-> {}]
UpdateOffers ==
  [set |-> Fields \ {"created_at"}, add |-> {}, clear |-> ClearFields,
   unlink |-> {"user_id"}, many |-> {}]
UpdateFills ==
  [defaults |-> {"updated_at"}, valid |-> ClearFields, parents |-> {"user_id"}]
UpdateWrites ==
  [set |-> Fields \ {"created_at", "user_id"}, add |-> {},
   clear |-> ClearFields, parents |-> {"user_id"}, many |-> {}]
UpdateOneOffers == UpdateOffers
UpdateOneFills == UpdateFills
UpdateOneWrites == UpdateWrites
Loads ==
  [single |-> DOMAIN Edges.single, withFKs |-> {}, many |-> DOMAIN Edges.many,
   childFKs |-> {}]

Client ==
  [fields |-> Fields, addFields |-> AddFields, clearFields |-> ClearFields,
   setFields |-> SetFields, resetFields |-> ResetFields, edges |-> Edges,
   slots |-> Slots, table |-> Table, declared |-> Declared,
   selected |-> Selected, scans |-> Scans, loads |-> Loads,
   offers |-> [create |-> CreateOffers, update |-> UpdateOffers,
               updateOne |-> UpdateOneOffers],
   fills |-> [create |-> CreateFills, update |-> UpdateFills,
              updateOne |-> UpdateOneFills],
   writes |-> [create |-> CreateWrites, update |-> UpdateWrites,
               updateOne |-> UpdateOneWrites]]
===============================================================================
