---------------------------- MODULE EntConsentLog -----------------------------
(*****************************************************************************)
(* consent_logs: agreements to the EULA and the privacy policy.  user_id is  *)
(* a plain nullable column: a consent outlives its user, so there is no      *)
(* foreign key and no edge.                                                  *)
(*****************************************************************************)
Fields == {"created_at", "updated_at", "client_consent_id", "client_id",
           "user_id", "consent_type", "policy_version", "granted", "nickname",
           "consented_at", "client_version", "platform", "locale",
           "build_mode", "received_at", "expires_at"}
AddFields == {}
ClearFields == {"user_id", "nickname", "client_version", "platform", "locale",
                "build_mode", "expires_at"}
SetFields == Fields
ResetFields == Fields
Edges == [single |-> << >>, many |-> << >>]
Slots ==
  [counters |-> {}, nullables |-> ClearFields, parents |-> {},
   many |-> DOMAIN Edges.many]

Table ==
  [notNull |-> (Fields \ ClearFields) \cup {"id"}, null |-> ClearFields,
   filled |-> {}, unlinked |-> {}]
Declared ==
  [optional |-> ClearFields, immutable |-> {"id", "created_at"},
   valid |-> {"consent_type", "policy_version", "nickname", "client_version",
              "platform", "locale", "build_mode"}, stamped |-> {"updated_at"}]
Selected == [columns |-> Fields \cup {"id"}, fks |-> {}]
Scans == Selected.columns

CreateOffers == [set |-> Fields \cup {"id"}, many |-> {}]
CreateFills ==
  [defaults |-> {"id", "created_at", "updated_at", "received_at"},
   required |-> Fields \ ClearFields, parents |-> {}, valid |-> Declared.valid]
CreateWrites == [set |-> Fields \cup {"id"}, parents |-> {}, many |-> {}]
UpdateOffers ==
  [set |-> Fields \ {"created_at"}, add |-> {}, clear |-> ClearFields,
   unlink |-> {}, many |-> {}]
UpdateFills ==
  [defaults |-> {"updated_at"}, valid |-> Declared.valid, parents |-> {}]
UpdateWrites ==
  [set |-> Fields \ {"created_at"}, add |-> {}, clear |-> ClearFields,
   parents |-> {}, many |-> {}]
UpdateOneOffers == UpdateOffers
UpdateOneFills == UpdateFills
UpdateOneWrites == UpdateWrites
Loads ==
  [single |-> DOMAIN Edges.single, withFKs |-> {}, many |-> DOMAIN Edges.many,
   childFKs |-> {}]

Client ==
  [fields |-> Fields, addFields |-> AddFields, clearFields |-> ClearFields,
   setFields |-> SetFields, resetFields |-> ResetFields, edges |-> Edges,
   slots |-> Slots, table |-> Table, declared |-> Declared,
   selected |-> Selected, scans |-> Scans, loads |-> Loads,
   offers |-> [create |-> CreateOffers, update |-> UpdateOffers,
               updateOne |-> UpdateOneOffers],
   fills |-> [create |-> CreateFills, update |-> UpdateFills,
              updateOne |-> UpdateOneFills],
   writes |-> [create |-> CreateWrites, update |-> UpdateWrites,
               updateOne |-> UpdateOneWrites]]
===============================================================================
