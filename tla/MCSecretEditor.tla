---------------------------- MODULE MCSecretEditor ----------------------------
(***************************************************************************)
(* SecretEditor over two collections, one of them empty, and the session's: *)
(* a password, an item of an unknown schema and one to be generated.  The   *)
(* first attribute is a URL that is shown as its domain.                    *)
(***************************************************************************)
EXTENDS SecretEditor

MCCollections == {"login", "other", "session"}
MCItems == {"password", "odd", "new"}
MCHome == [i \in MCItems |-> "login"]
MCShown == {"uri", "user"}
MCHidden == {"schema"}
MCTyped == {"one", "two"}
MCFormat == [v \in {"", "full", "one", "two"} |-> IF v = "full" THEN "one" ELSE v]
MCInitial == [p \in {"secret", "label", "user", "schema", "uri"} |-> IF p = "uri" THEN "full" ELSE "one"]
=============================================================================
