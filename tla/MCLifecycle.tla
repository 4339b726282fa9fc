----------------------------- MODULE MCLifecycle -----------------------------
(***************************************************************************)
(* Lifecycle for a family of deployments: one that works, and the ones     *)
(* that differ from it in what can go wrong.                               *)
(***************************************************************************)
EXTENDS Lifecycle, TLC

File(says) == [state |-> "ok", says |-> says]
Absent == [state |-> "missing", says |-> Nil]
Malformed == [state |-> "malformed", says |-> Nil]

MCLetters ==
    "" :> <<>> @@ "B" :> <<2>> @@ "c" :> <<3>> @@ "Z" :> <<26>> @@ "AA" :> <<1, 1>>
    @@ "AZ" :> <<1, 26>> @@ "ZZ" :> <<26, 26>> @@ "AAA" :> <<1, 1, 1>> @@ "3" :> <<0>>

\* A chart of two sections and an officer.
Section(key, groups) == [key |-> key, hidden |-> FALSE, groups |-> groups]
Officer(key, group, owns) == [key |-> key, group |-> group, owns |-> owns]
GoodChart == [sections |-> <<Section("board", <<"committee", "general">>), Section("work", <<"info">>)>>,
              groups |-> {"committee", "general", "info"},
              roles |-> <<Officer("president", "committee", <<"general">>),
                          Officer("secretary", "committee", <<"info">>)>>]

BadCharts ==
    {[GoodChart EXCEPT !.sections[2].key = "board"], [GoodChart EXCEPT !.sections[1].key = ""],
     [GoodChart EXCEPT !.sections[2].groups = <<"info", "general">>],
     [GoodChart EXCEPT !.sections[2].groups = <<"info", "unnamed">>],
     [GoodChart EXCEPT !.sections[2].groups = <<>>],
     [GoodChart EXCEPT !.roles[2].key = "president"], [GoodChart EXCEPT !.roles[1].group = "unnamed"],
     [GoodChart EXCEPT !.roles[1].owns = <<"unnamed">>], [GoodChart EXCEPT !.roles[2].owns = <<"general">>]}

OtherCharts == {[GoodChart EXCEPT !.sections = <<@[2], @[1]>>], [GoodChart EXCEPT !.roles = <<>>]}

\* The file carries what is committed, .env what is secret.
Base == [file |-> File("database_url" :> "postgres" @@ "impersonate_subject" :> "admin"
                       @@ "login_group" :> "general" @@ "spreadsheet_id" :> "sheet"
                       @@ "email_column" :> "B" @@ "name_column" :> "c" @@ "nickname_column" :> "AA"),
         dotenv |-> File("service_account_key" :> "a service account" @@ "secret" :> "s1"),
         environ |-> Nil, flags |-> File(Nil), chart |-> GoodChart,
         migrations |-> "applied", port |-> "free"]

\* One setting said otherwise in .env, one in the process's environment, one in
\* a flag.
InEnv(f, v) == [Base EXCEPT !.dotenv.says = f :> v @@ @]
InProcess(f, v) == [Base EXCEPT !.environ = f :> v]
ByFlag(f, v) == [Base EXCEPT !.flags.says = f :> v]
InFile(f, v) == [Base EXCEPT !.file.says = f :> v @@ @]

Layered ==
    {InEnv("impersonate_subject", "other"), InEnv("secret", ""), InEnv("debug", "yes"),
     InEnv("service_account_key", "not base64"), InEnv("service_account_key", "not a key"),
     InEnv("header_rows", "many"), InEnv("header_rows", "0"), InEnv("database_url", "malformed"),
     InEnv("cache_ttl", "not a duration"), InEnv("allow_origins", "o"),
     InProcess("secret", "s2"), InProcess("login_group", "other"),
     [InEnv("secret", "") EXCEPT !.environ = "secret" :> "s2"],
     [InEnv("secret", DefaultSecret) EXCEPT !.environ = "debug" :> "true"],
     ByFlag("secret", "s3"), ByFlag("service_account_key", "not base64"), ByFlag("cache_ttl", ""),
     [ByFlag("domain", "d") EXCEPT !.flags.says = @ @@ "header_rows" :> "2" @@ "debug" :> "true"],
     InFile("header_rows", "many"), InFile("debug", "true"), InFile("secret", "s0"),
     [Base EXCEPT !.file.says = "database_url" :> "postgres"]}

Broken ==
    {[Base EXCEPT !.file = Absent], [Base EXCEPT !.file = Malformed], [Base EXCEPT !.dotenv = Absent],
     [Base EXCEPT !.dotenv = Malformed], [Base EXCEPT !.flags = Malformed],
     [Base EXCEPT !.migrations = "failing"], [Base EXCEPT !.migrations = "none"],
     [Base EXCEPT !.port = "taken"]}
    \cup {[Base EXCEPT !.chart = c] : c \in BadCharts \cup OtherCharts}

Sheets ==
    {InFile("spreadsheet_id", ""), InFile("nickname_column", ""), InFile("nickname_column", "3"),
     InFile("login_group", ""), InFile("nickname_column", "Z"), InFile("nickname_column", "AZ"),
     InFile("name_column", "ZZ"), InFile("email_column", "AAA")}

MCDeployments == {Base} \cup Layered \cup Broken \cup Sheets

MCEmptied == {Base, InFile("domain", ""), InEnv("domain", ""), ByFlag("domain", "")}
==============================================================================
