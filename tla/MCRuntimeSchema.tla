--------------------------- MODULE MCRuntimeSchema --------------------------
(* Old databases: three of the references below a session, and columns of four tables. *)
EXTENDS RuntimeSchema

MCMayBeOld ==
  {r \in Sqlite : r.rule = "cascade"
                   /\ r.child \in {"messages", "files", "file_parse_results"}}
MCMayLack == {DisplayName} \cup Owners({"sessions", "knowledge_items", "reports"})
MCFlight == {"messages", "reports", "user_settings"}
=============================================================================
