------------------------------- MODULE EntUser --------------------------------
(*****************************************************************************)
(* users: account, progress and ban.  progress.go writes level and exp.      *)
(*****************************************************************************)
Fields == {"created_at", "updated_at", "platform_type", "platform_user_id",
           "platform_email", "platform_avatar_url", "platform_display_name",
           "language", "platform_data", "is_verified", "nickname",
           "display_name", "last_login_at", "level", "exp", "coin", "gem",
           "settings", "customize_data", "save_data", "is_banned",
           "banned_until", "ban_reason"}
AddFields == {"level", "exp", "coin", "gem"}
ClearFields == {"platform_email", "platform_avatar_url",
                "platform_display_name", "platform_data", "display_name",
                "banned_until", "ban_reason"}
SetFields == Fields
ResetFields == Fields
Edges ==
  [single |-> << >>,
   many |-> [records |-> <<"record", "user_id">>,
            event_logs |-> <<"eventlog", "user_id">>,
            user_achievements |-> <<"userachievement", "user_id">>,
            user_purchases |-> <<"userpurchase", "user_id">>]]
Slots ==
  [counters |-> AddFields, nullables |-> ClearFields, parents |-> {},
   many |-> DOMAIN Edges.many]

Table ==
  [notNull |-> (Fields \ ClearFields) \cup {"id"}, null |-> ClearFields,
   filled |-> AddFields \cup {"language", "is_verified", "is_banned"},
   unlinked |-> {}]
Declared ==
  [optional |-> ClearFields, immutable |-> {"id", "created_at"},
   valid |-> {"platform_type"}, stamped |-> {"updated_at"}]
Selected == [columns |-> Fields \cup {"id"}, fks |-> {}]
Scans == Selected.columns

CreateOffers == [set |-> Fields \cup {"id"}, many |-> Slots.many]
CreateFills ==
  [defaults |-> AddFields \cup {"id", "created_at", "updated_at", "language",
                                "is_verified", "last_login_at", "settings",
                                "customize_data", "save_data", "is_banned"},
   required |-> Fields \ ClearFields, parents |-> {}, valid |-> Declared.valid]
CreateWrites ==
  [set |-> Fields \cup {"id"}, parents |-> {}, many |-> Slots.many]
UpdateOffers ==
  [set |-> Fields \ {"created_at"}, add |-> AddFields, clear |-> ClearFields,
   unlink |-> {}, many |-> Slots.many]
UpdateFills ==
  [defaults |-> {"updated_at"}, valid |-> Declared.valid, parents |-> {}]
UpdateWrites ==
  [set |-> Fields \ {"created_at"}, add |-> AddFields, clear |-> ClearFields,
   parents |-> {}, many |-> Slots.many]
UpdateOneOffers == UpdateOffers
(* A bug: an update fills in a default of Create.                            *)
UpdateOneFillsLanguage == [UpdateFills EXCEPT !.defaults = @ \cup {"language"}]
UpdateOneFills == UpdateFills
UpdateOneWrites == UpdateWrites
Loads ==
  [single |-> DOMAIN Edges.single, withFKs |-> {}, many |-> DOMAIN Edges.many,
   childFKs |-> {"records"}]

Client ==
  [fields |-> Fields, addFields |-> AddFields, clearFields |-> ClearFields,
   setFields |-> SetFields, resetFields |-> ResetFields, edges |-> Edges,
   slots |-> Slots, table |-> Table, declared |-> Declared,
   selected |-> Selected, scans |-> Scans, loads |-> Loads,
   offers |-> [create |-> CreateOffers, update |-> UpdateOffers,
               updateOne |-> UpdateOneOffers],
   fills |-> [create |-> CreateFills, update |-> UpdateFills,
              updateOne |-> UpdateOneFills],
   writes |-> [create |-> CreateWrites, update |-> UpdateWrites,
               updateOne |-> UpdateOneWrites]]
===============================================================================
