----------------------------- MODULE ConfigLayers -----------------------------
(***************************************************************************)
(* Configuration (internal/config): defaults, then config.yaml, then the   *)
(* environment with .env laid over it, then the flags.                     *)
(*                                                                         *)
(* A setting's value is its text; "" is Go's zero value, which is also     *)
(* what false and 0 amount to here.  What somebody wrote in a layer is a   *)
(* function on the settings they mention, so that mentioning one with an   *)
(* empty value and not mentioning it are two things, until they are read.  *)
(*                                                                         *)
(* A deployment has file and dotenv, each [state, says] with state "ok",   *)
(* "missing" or "malformed", environ, and flags, also [state, says].       *)
(***************************************************************************)
EXTENDS Naturals, Sequences

GroupFields == {"service_account_key", "impersonate_subject", "cache_ttl", "domain", "login_group"}
SheetFields == {"spreadsheet_id", "sheet_name", "email_column", "name_column",
                "nickname_column", "header_rows"}
TopFields == {"debug", "host", "port", "base_url", "secret", "database_url", "migration_source",
              "allow_origins", "frontend_url", "google_oauth_client_id",
              "google_oauth_client_secret"}
Fields == TopFields \cup GroupFields \cup SheetFields

DefaultSecret == "default-secret"
NoSettings == [f \in Fields |-> ""]

Defaults == [NoSettings EXCEPT
    !["host"] = "localhost", !["port"] = "8080", !["secret"] = DefaultSecret,
    !["migration_source"] = "file://internal/database/migrations",
    !["base_url"] = "http://localhost:8080", !["frontend_url"] = "http://localhost:3000",
    !["cache_ttl"] = "5m", !["domain"] = "sdc.nycu.club",
    !["sheet_name"] = "responses 1", !["header_rows"] = "1"]

------------------------------------------------------------------------------
(* Merging. *)

\* configutil.Merge: a field of the struct that is zero keeps the earlier
\* value.  A nested struct is one field: zero only when all of it is.
Merge(parts, base, override) ==
    [f \in DOMAIN base |->
        IF \E part \in parts : f \in part /\ \E g \in part : override[g] # ""
        THEN override[f] ELSE base[f]]

TopLevel == {{f} : f \in TopFields} \cup {GroupFields, SheetFields}
Nested == {{f} : f \in GroupFields \cup SheetFields}

mergeConfigAtOnce(base, override) == Merge(TopLevel, base, override)

\* The two nested configs are merged on their own, and put back over what the
\* outer merge made of them.
mergeConfig(base, override) ==
    LET nested == Merge(Nested, base, override)
        merged == Merge(TopLevel, base, override)
    IN  [f \in Fields |-> IF f \in TopFields THEN merged[f] ELSE nested[f]]

------------------------------------------------------------------------------
(* Layers. *)

Numbers == {"0", "1", "2", "3"}
Text(says, f) == IF f \in DOMAIN says THEN says[f] ELSE ""

NumberIn(text) == IF text \in Numbers \ {"0"} THEN text ELSE ""
FlagIn(text) == IF text = "true" THEN "true" ELSE ""

Decoded(says) ==
    [f \in Fields |-> CASE f = "header_rows" -> NumberIn(Text(says, f))
                        [] f = "debug" -> FlagIn(Text(says, f))
                        [] OTHER -> Text(says, f)]

\* A value of the wrong type fails the decoding of the whole file.
Decodes(file) == file.state = "ok" /\ Text(file.says, "header_rows") \in Numbers \cup {""}

\* On an error the config is handed on as it was.
FromFile(file, config) ==
    IF Decodes(file) THEN mergeConfig(config, Decoded(file.says)) ELSE config

\* godotenv.Overload: what .env mentions replaces what the process was given,
\* even by nothing.
Environ(dotenv, environ) ==
    [f \in DOMAIN dotenv.says \cup DOMAIN environ |->
        IF f \in DOMAIN dotenv.says THEN dotenv.says[f] ELSE environ[f]]

\* A key that is not base64 is ignored, like a number that is none.
EnvSays(dotenv, environ) ==
    [Decoded(Environ(dotenv, environ)) EXCEPT
        !["service_account_key"] = IF @ = "not base64" THEN "" ELSE @]

\* A .env that is there and cannot be read leaves no config at all.
Nil == [f \in {} |-> ""]
FromEnv(dotenv, environ, config) ==
    IF dotenv.state = "malformed" THEN Nil ELSE mergeConfig(config, EnvSays(dotenv, environ))

\* There is a flag for everything but the origins.
FromFlags(flags, config) ==
    mergeConfig(config, [Decoded(flags.says) EXCEPT !["allow_origins"] = ""])

FileLoaded(d) == FromEnv(d.dotenv, d.environ, FromFile(d.file, Defaults))

\* The flag package exits on flags it cannot parse; then the config is
\* dereferenced.
LoadOutcome(d) ==
    IF d.flags.state # "ok" THEN "fatal" ELSE IF FileLoaded(d) = Nil THEN "panicked" ELSE "loaded"

Load(d) == FromFlags(d.flags, FileLoaded(d))

------------------------------------------------------------------------------
(* What the layers amount to, setting by setting and without merging. *)

\* What each layer usably says of a setting, the defaults first.
Said(d, f) ==
    << Defaults[f],
       IF Decodes(d.file) THEN Decoded(d.file.says)[f] ELSE "",
       EnvSays(d.dotenv, d.environ)[f],
       IF f = "allow_origins" THEN "" ELSE Decoded(d.flags.says)[f] >>

\* The last of them that says anything.
Effective(d, f) ==
    LET by == {i \in 1..4 : Said(d, f)[i] # ""} IN
        IF by = {} THEN "" ELSE Said(d, f)[CHOOSE i \in by : \A j \in by : j <= i]

\* The last layer that mentions a setting at all empties it.
Emptied(d, f) ==
    LET says == <<IF Decodes(d.file) THEN d.file.says ELSE Nil, Environ(d.dotenv, d.environ), d.flags.says>>
        by == {i \in 1..3 : f \in DOMAIN says[i]}
    IN  \E i \in by : (\A j \in by : j <= i) /\ says[i][f] = ""
==============================================================================
