------------------------- MODULE ConfigFormsProofs -------------------------
(***************************************************************************)
(* Proofs about ConfigForms: ShownIsRun, NeutralSave and HiddenIsOff for   *)
(* every subset of the five forms, every set of edited options and any     *)
(* number of edits.  RowOK and PresetOK collect what the argument needs of *)
(* a row of a form and of a line of an installed file; they are proved     *)
(* group by group for every row of every form.  The invariant is about     *)
(* what is stored (UciOK), about what the widgets hold (FormOK) and, for   *)
(* the secret that the script of openlist2 makes up, about what runs.      *)
(***************************************************************************)
EXTENDS ConfigForms, TLAPS

\* The options a dependency names, and those of them that are not flags.
Parents == {"log", "database_type", "ssl", "music_source", "enable_flac", "auto_update",
            "advanced_mode", "hijack_ways", "time_mode", "family", "track_method",
            "check_quality"}
Selects == {"database_type", "hijack_ways", "music_source", "time_mode", "family",
            "track_method"}

\* The options the argument or an installed file knows by name.
Known == Parents \cup {"enabled", "enable", "max_concurrency", "delay",
            "enable_active_conn_ip_check", "enable_pasv_conn_ip_check", "http_port",
            "https_port", "failure_interval", "recovery_interval", "log_compress",
            "log_max_size", "log_max_backups", "log_max_age", "update_time", "timestart",
            "timeend", "pub_access", "jwt_secret"}

\* The options with a parent that an installed file sets.
PresetZero == {"log_compress"}
PresetStd == {"log_max_size", "log_max_backups", "log_max_age", "update_time", "timestart",
              "timeend"}

\* The other options with a parent.
Children == {"log_path", "mysql_port", "mysql_table_prefix", "mysql_host", "mysql_username",
             "mysql_password", "mysql_database", "mysql_ssl_mode", "mysql_dsn", "force_https",
             "enable_h3", "ssl_cert", "ssl_key", "joox_cookie", "migu_cookie", "qq_cookie",
             "youtube_key", "enable_flac", "select_max_br", "pub_access", "strict_mode",
             "http_port", "https_port", "hijack_ways", "log_level", "self_issue_cert_crt",
             "self_issue_cert_key", "endpoint_url", "cnrelay", "netease_server_ip",
             "proxy_server_ip", "duration", "reset_cycle", "use_duration", "track_gateway",
             "snat6", "httping_ssl", "size", "max_ttl", "check_quality", "failure_latency",
             "failure_loss", "recovery_latency", "recovery_loss"}

\* The options of a page that are always stored: their two defaults differ where
\* it would be seen.
Stored(p) == CASE p = "openlist2" -> {"enabled", "max_concurrency"}
               [] p = "timecontrol" -> {"enable"}
               [] OTHER -> {}
Differs(o, r) == o \notin Disagree /\ r.default # "" /\ r.default # r.service

RowOK(p, o, r) ==
    /\ Differs(o, r) => r.required /\ r.depends = {} /\ o \in Stored(p)
    /\ r.kind = "flag" => (r.depends # {} => r.service = "0")
    /\ r.kind = "flag" => (~r.required => r.default = r.service)
    /\ r.kind = "flag" => o \notin {"http_port", "https_port", "hijack_ways",
                                    "failure_interval", "recovery_interval"}
    /\ \A d \in r.depends : d[1] \in Parents
    /\ o \in Parents => r.kind = "flag" \/ o \in Selects
    /\ o \in Parents => o = "music_source" \/ r.default # ""
    /\ o = "music_source" => r.default = ""
    /\ o \in {"http_port", "https_port"}
         => /\ p = "unblockneteasemusic"
            /\ r.depends = When("hijack_ways", {"dont_hijack", "use_ipset"})
    /\ o = "hijack_ways" => /\ p = "unblockneteasemusic" /\ r.required
                            /\ r.default = "dont_hijack" /\ r.service = "use_ipset"
    /\ o \in {"hijack_ways", "pub_access"}
         => p = "unblockneteasemusic" /\ r.depends = When("advanced_mode", {"1"})
    /\ o = "pub_access" => r.service = "0"
    /\ o = "advanced_mode" => r.default = "0"
    /\ o = "jwt_secret" => r.kind # "flag" /\ r.depends = {} /\ r.service = ""
    /\ r.default # Unset
    /\ o \in PresetZero => r.service = "0"
    /\ o \in PresetStd => r.service = "std"
    /\ r.depends = {} \/ o \in Children \cup PresetZero \cup PresetStd

RowsOK(p, T) == \A o \in DOMAIN T : RowOK(p, o, T[o])

\* A union of two groups of rows is as good as they are.
LEMMA JoinOK ==
    ASSUME NEW p, NEW f, NEW g, RowsOK(p, f), RowsOK(p, g)
    PROVE  RowsOK(p, f @@ g)
<1> SUFFICES ASSUME NEW o \in DOMAIN (f @@ g)
             PROVE  RowOK(p, o, (f @@ g)[o])
    BY DEF RowsOK
<1>1. CASE o \in DOMAIN f
    <2>1. (f @@ g)[o] = f[o] BY <1>1 DEF @@
    <2> QED BY <1>1, <2>1 DEF RowsOK
<1>2. CASE o \notin DOMAIN f
    <2>1. o \in DOMAIN g /\ (f @@ g)[o] = g[o] BY <1>2 DEF @@
    <2> QED BY <2>1 DEF RowsOK
<1> QED BY <1>1, <1>2

LEMMA OneRowOK ==
    ASSUME NEW p, NEW o, NEW r, RowOK(p, o, r)
    PROVE  RowsOK(p, o :> r)
BY DEF RowsOK, :>

\* A row whose two defaults agree, for an option without and with a parent.
Plain(r) ==
    /\ r.default # Unset /\ (r.default = "" \/ r.default = r.service)
    /\ r.kind = "flag" => r.default = r.service
    /\ r.depends = {}

Child(r) ==
    /\ r.default # Unset /\ (r.default = "" \/ r.default = r.service)
    /\ r.kind = "flag" => r.default = "0" /\ r.service = "0"
    /\ \A d \in r.depends : d[1] \in Parents

LEMMA UnknownOK ==
    ASSUME NEW o, o \notin Known
    PROVE  /\ o \notin Parents /\ o \notin PresetZero /\ o \notin PresetStd
           /\ o \notin {"http_port", "https_port", "hijack_ways", "failure_interval",
                        "recovery_interval", "music_source", "pub_access", "jwt_secret",
                        "advanced_mode"}
BY DEF Known, Parents, PresetZero, PresetStd

LEMMA PlainOK ==
    ASSUME NEW p, NEW o, o \notin Known, NEW r, Plain(r)
    PROVE  RowOK(p, o, r)
BY UnknownOK DEF RowOK, Differs, Plain

LEMMA ChildOK ==
    ASSUME NEW p, NEW o, o \notin Known, o \in Children, NEW r, Child(r)
    PROVE  RowOK(p, o, r)
BY UnknownOK DEF RowOK, Differs, Child

LEMMA WhenOK ==
    ASSUME NEW p, NEW vs
    PROVE  When(p, vs) # {} /\ \A d \in When(p, vs) : d[1] = p /\ d[2] = vs
BY DEF When

\* The rows of both sorts that the tables are made of.
LEMMA PlainRows ==
    /\ Plain(Needed("std", "std", Always)) /\ Plain(Optional("std", "std", Always))
    /\ Plain(Optional("", "", Always)) /\ Plain(Needed("", "", Always))
    /\ Plain(Optional("", "std", Always)) /\ Plain(Optional("10", "10", Always))
    /\ Plain(Optional("dont_replace", "dont_replace", Always))
    /\ Plain(Flag("0", "0", Always)) /\ Plain(Flag("1", "1", Always))
    /\ Plain(Removable(Always))
BY DEF Plain, Needed, Optional, Flag, Removable, Option, Always, Unset

LEMMA ChildRows ==
    ASSUME NEW p \in Parents, NEW vs
    PROVE  /\ Child(Needed("std", "std", When(p, vs))) /\ Child(Needed("", "", When(p, vs)))
           /\ Child(Optional("std", "std", When(p, vs)))
           /\ Child(Optional("", "", When(p, vs)))
           /\ Child(Flag("0", "0", When(p, vs))) /\ Child(Removable(When(p, vs)))
BY WhenOK DEF Child, Needed, Optional, Flag, Removable, Option, Unset

-----------------------------------------------------------------------------
(* The tables *)

LEMMA Openlist2BasicOK == RowsOK("openlist2", Openlist2Basic)
<1>1. RowsOK("openlist2", [o \in {"port", "temp_dir",
        "token_expires_in", "max_connections", "auto_memory_limit", "min_free_memory",
        "max_block_limit"} |-> Needed("std", "std", Always)])
    <2>1. \A o \in {"port", "temp_dir", "token_expires_in",
            "max_connections", "auto_memory_limit", "min_free_memory",
            "max_block_limit"} : o \notin Known
        BY DEF Known, Parents
    <2> QED BY <2>1, PlainRows, PlainOK DEF RowsOK
<1>2. RowsOK("openlist2", [o \in {"site_url", "cdn", "jwt_secret", "proxy_address"} |->
        Optional("", "", Always)])
    <2> DEFINE r == Optional("", "", Always)
    <2>1. \A o \in {"site_url", "cdn", "proxy_address"} : o \notin Known
        BY DEF Known, Parents
    <2>2. RowOK("openlist2", "jwt_secret", r)
        BY DEF RowOK, Differs, Disagree, Stored, Parents, Selects, Children,
               PresetZero, PresetStd, Unset, Optional, Always, Option
    <2>3. \A o \in {"site_url", "cdn", "proxy_address"} : RowOK("openlist2", o, r)
        BY <2>1, PlainRows, PlainOK
    <2> QED BY <2>2, <2>3 DEF RowsOK
<1>3. RowsOK("openlist2", [o \in {"force", "tls_insecure_skip_verify"} |-> Flag("1",
        "1", Always)])
    <2>1. \A o \in {"force", "tls_insecure_skip_verify"} : o \notin Known
        BY DEF Known, Parents
    <2> QED BY <2>1, PlainRows, PlainOK DEF RowsOK
<1>4. RowsOK("openlist2", "enabled" :> Flag("0", "1", Always))
    <2>1. RowOK("openlist2", "enabled", Flag("0", "1", Always))
        BY DEF RowOK, Differs, Disagree, Stored, Parents, Selects, Children,
               PresetZero, PresetStd, Unset, Flag, Always, Option
    <2> QED BY <2>1, OneRowOK
<1>5. RowsOK("openlist2", "allow_wan" :> Flag("0", "0", Always))
    <2>1. "allow_wan" \notin Known BY DEF Known, Parents
    <2> QED BY <2>1, PlainRows, PlainOK, OneRowOK
<1>6. RowsOK("openlist2", "data_dir" :> Optional("std", "std", Always))
    <2>1. "data_dir" \notin Known BY DEF Known, Parents
    <2> QED BY <2>1, PlainRows, PlainOK, OneRowOK
<1>7. RowsOK("openlist2", "delayed_start" :> Needed("0", "0", Always))
    <2>1. RowOK("openlist2", "delayed_start", Needed("0", "0", Always))
        BY DEF RowOK, Differs, Disagree, Stored, Parents, Selects, Children,
               PresetZero, PresetStd, Unset, Needed, Always, Option
    <2> QED BY <2>1, OneRowOK
<1> QED BY <1>1, <1>2, <1>3, <1>4, <1>5, <1>6, <1>7, JoinOK DEF Openlist2Basic

LEMMA Openlist2LimitsOK == RowsOK("openlist2", Openlist2Limits)
<1>1. RowsOK("openlist2", "max_concurrency" :> Needed("0", "64", Always))
    <2>1. RowOK("openlist2", "max_concurrency", Needed("0", "64", Always))
        BY DEF RowOK, Differs, Disagree, Stored, Parents, Selects, Children,
               PresetZero, PresetStd, Unset, Needed, Always, Option
    <2> QED BY <2>1, OneRowOK
<1> QED BY <1>1, JoinOK DEF Openlist2Limits

LEMMA Openlist2LogOK == RowsOK("openlist2", Openlist2Log)
<1>1. RowsOK("openlist2", "log" :> Flag("1", "1", Always))
    <2>1. RowOK("openlist2", "log", Flag("1", "1", Always))
        BY DEF RowOK, Differs, Disagree, Stored, Parents, Selects, Children,
               PresetZero, PresetStd, Unset, Flag, Always, Option
    <2> QED BY <2>1, OneRowOK
<1>2. RowsOK("openlist2", "log_compress" :> Flag("0", "0", When("log", {"1"})))
    <2>1. RowOK("openlist2", "log_compress", Flag("0", "0", When("log", {"1"})))
        BY WhenOK DEF RowOK, Differs, Disagree, Stored, Parents, Selects, Children,
               PresetZero, PresetStd, Unset, Flag, Option, Always
    <2> QED BY <2>1, OneRowOK
<1>3. RowsOK("openlist2", [o \in {"log_path", "log_max_size", "log_max_backups",
        "log_max_age"} |-> Needed("std", "std", When("log", {"1"}))])
    <2> DEFINE r == Needed("std", "std", When("log", {"1"}))
    <2>1. RowOK("openlist2", "log_path", r)
        BY WhenOK DEF RowOK, Differs, Disagree, Stored, Parents, Selects, Children,
               PresetZero, PresetStd, Unset, Needed, Option, Always
    <2>2. RowOK("openlist2", "log_max_size", r)
        BY WhenOK DEF RowOK, Differs, Disagree, Stored, Parents, Selects, Children,
               PresetZero, PresetStd, Unset, Needed, Option, Always
    <2>3. RowOK("openlist2", "log_max_backups", r)
        BY WhenOK DEF RowOK, Differs, Disagree, Stored, Parents, Selects, Children,
               PresetZero, PresetStd, Unset, Needed, Option, Always
    <2>4. RowOK("openlist2", "log_max_age", r)
        BY WhenOK DEF RowOK, Differs, Disagree, Stored, Parents, Selects, Children,
               PresetZero, PresetStd, Unset, Needed, Option, Always
    <2> QED BY <2>1, <2>2, <2>3, <2>4 DEF RowsOK
<1> QED BY <1>1, <1>2, <1>3, JoinOK DEF Openlist2Log

LEMMA Openlist2DatabaseOK == RowsOK("openlist2", Openlist2Database)
<1> DEFINE remote == When("database_type", {"mysql", "postgres"})
<1>1. RowsOK("openlist2", "database_type" :> Optional("sqlite3", "sqlite3", Always))
    <2>1. RowOK("openlist2", "database_type", Optional("sqlite3", "sqlite3", Always))
        BY DEF RowOK, Differs, Disagree, Stored, Parents, Selects, Children,
               PresetZero, PresetStd, Unset, Optional, Always, Option
    <2> QED BY <2>1, OneRowOK
<1>2. RowsOK("openlist2", [o \in {"mysql_port", "mysql_table_prefix"} |->
        Optional("std", "std", remote)])
    <2>1. \A o \in {"mysql_port", "mysql_table_prefix"} : o \notin Known /\ o \in Children
        BY DEF Known, Parents, Children
    <2>2. "database_type" \in Parents BY DEF Parents
    <2> QED BY <2>1, <2>2, ChildRows, ChildOK DEF RowsOK
<1>3. RowsOK("openlist2", [o \in {"mysql_host", "mysql_username", "mysql_password",
        "mysql_database", "mysql_ssl_mode", "mysql_dsn"} |-> Optional("", "", remote)])
    <2>1. \A o \in {"mysql_host", "mysql_username", "mysql_password", "mysql_database",
            "mysql_ssl_mode", "mysql_dsn"} : o \notin Known /\ o \in Children
        BY DEF Known, Parents, Children
    <2>2. "database_type" \in Parents BY DEF Parents
    <2> QED BY <2>1, <2>2, ChildRows, ChildOK DEF RowsOK
<1> QED BY <1>1, <1>2, <1>3, JoinOK DEF Openlist2Database

LEMMA Openlist2SchemeOK == RowsOK("openlist2", Openlist2Scheme)
<1>1. RowsOK("openlist2", [o \in {"ssl", "enable_h2c"} |-> Flag("0", "0", Always)])
    <2> DEFINE r == Flag("0", "0", Always)
    <2>1. RowOK("openlist2", "ssl", r)
        BY DEF RowOK, Differs, Disagree, Stored, Parents, Selects, Children,
               PresetZero, PresetStd, Unset, Flag, Always, Option
    <2>2. RowOK("openlist2", "enable_h2c", r)
        BY DEF RowOK, Differs, Disagree, Stored, Parents, Selects, Children,
               PresetZero, PresetStd, Unset, Flag, Always, Option
    <2> QED BY <2>1, <2>2 DEF RowsOK
<1>2. RowsOK("openlist2", [o \in {"ssl_cert", "ssl_key"} |-> Needed("", "", When("ssl",
        {"1"}))])
    <2>1. \A o \in {"ssl_cert", "ssl_key"} : o \notin Known /\ o \in Children
        BY DEF Known, Parents, Children
    <2>2. "ssl" \in Parents BY DEF Parents
    <2> QED BY <2>1, <2>2, ChildRows, ChildOK DEF RowsOK
<1> QED BY <1>1, <1>2, JoinOK DEF Openlist2Scheme

LEMMA Openlist2HttpsOK == RowsOK("openlist2", Openlist2Https)
<1>1. RowsOK("openlist2", [o \in {"force_https", "enable_h3"} |-> Flag("0", "0",
        When("ssl", {"1"}))])
    <2>1. \A o \in {"force_https", "enable_h3"} : o \notin Known /\ o \in Children
        BY DEF Known, Parents, Children
    <2>2. "ssl" \in Parents BY DEF Parents
    <2> QED BY <2>1, <2>2, ChildRows, ChildOK DEF RowsOK
<1> QED BY <1>1, JoinOK DEF Openlist2Https

LEMMA Openlist2TasksOK == RowsOK("openlist2", Openlist2Tasks)
<1>1. RowsOK("openlist2", [o \in {"download_workers", "download_max_retry",
        "transfer_workers", "transfer_max_retry", "upload_workers", "upload_max_retry",
        "copy_workers", "copy_max_retry", "move_workers", "move_max_retry",
        "decompress_workers", "decompress_max_retry", "decompress_upload_workers",
        "decompress_upload_max_retry"} |-> Needed("std", "std", Always)])
    <2>1. \A o \in {"download_workers", "download_max_retry", "transfer_workers",
            "transfer_max_retry", "upload_workers", "upload_max_retry", "copy_workers",
            "copy_max_retry", "move_workers", "move_max_retry", "decompress_workers",
            "decompress_max_retry", "decompress_upload_workers",
            "decompress_upload_max_retry"} : o \notin Known
        BY DEF Known, Parents
    <2> QED BY <2>1, PlainRows, PlainOK DEF RowsOK
<1>2. RowsOK("openlist2", "allow_retry_canceled" :> Flag("0", "0", Always))
    <2>1. "allow_retry_canceled" \notin Known BY DEF Known, Parents
    <2> QED BY <2>1, PlainRows, PlainOK, OneRowOK
<1> QED BY <1>1, <1>2, JoinOK DEF Openlist2Tasks

LEMMA Openlist2ServersOK == RowsOK("openlist2", Openlist2Servers)
<1>1. RowsOK("openlist2", [o \in {"cors_allow_origins", "cors_allow_methods",
        "cors_allow_headers", "s3_port", "ftp_port", "find_pasv_port_attempts",
        "idle_timeout", "connection_timeout", "sftp_port"} |-> Needed("std", "std",
        Always)])
    <2>1. \A o \in {"cors_allow_origins", "cors_allow_methods", "cors_allow_headers",
            "s3_port", "ftp_port", "find_pasv_port_attempts", "idle_timeout",
            "connection_timeout", "sftp_port"} : o \notin Known
        BY DEF Known, Parents
    <2> QED BY <2>1, PlainRows, PlainOK DEF RowsOK
<1>2. RowsOK("openlist2", [o \in {"s3", "s3_ssl", "ftp", "active_transfer_port_non_20",
        "disable_active_mode", "default_transfer_binary", "sftp", "mcp"} |-> Flag("0",
        "0", Always)])
    <2>1. \A o \in {"s3", "s3_ssl", "ftp", "active_transfer_port_non_20",
            "disable_active_mode", "default_transfer_binary", "sftp", "mcp"} : o \notin
            Known
        BY DEF Known, Parents
    <2> QED BY <2>1, PlainRows, PlainOK DEF RowsOK
<1>3. RowsOK("openlist2", [o \in {"enable_active_conn_ip_check",
        "enable_pasv_conn_ip_check"} |-> Flag("0", "1", Always)])
    <2> DEFINE r == Flag("0", "1", Always)
    <2>1. RowOK("openlist2", "enable_active_conn_ip_check", r)
        BY DEF RowOK, Differs, Disagree, Stored, Parents, Selects, Children,
               PresetZero, PresetStd, Unset, Flag, Always, Option
    <2>2. RowOK("openlist2", "enable_pasv_conn_ip_check", r)
        BY DEF RowOK, Differs, Disagree, Stored, Parents, Selects, Children,
               PresetZero, PresetStd, Unset, Flag, Always, Option
    <2> QED BY <2>1, <2>2 DEF RowsOK
<1> QED BY <1>1, <1>2, <1>3, JoinOK DEF Openlist2Servers

LEMMA UnblockSourcesOK == RowsOK("unblockneteasemusic", UnblockSources)
<1>1. RowsOK("unblockneteasemusic", "enable" :> Flag("0", "0", Always))
    <2>1. RowOK("unblockneteasemusic", "enable", Flag("0", "0", Always))
        BY DEF RowOK, Differs, Disagree, Stored, Parents, Selects, Children,
               PresetZero, PresetStd, Unset, Flag, Always, Option
    <2> QED BY <2>1, OneRowOK
<1>2. RowsOK("unblockneteasemusic", "music_source" :> Optional("", "", Always))
    <2>1. RowOK("unblockneteasemusic", "music_source", Optional("", "", Always))
        BY DEF RowOK, Differs, Disagree, Stored, Parents, Selects, Children,
               PresetZero, PresetStd, Unset, Optional, Always, Option
    <2> QED BY <2>1, OneRowOK
<1>3. RowsOK("unblockneteasemusic", "joox_cookie" :> Needed("", "", When("music_source",
        {"joox"})))
    <2>1. "joox_cookie" \notin Known /\ "joox_cookie" \in Children BY DEF Known, Parents, Children
    <2>2. "music_source" \in Parents BY DEF Parents
    <2> QED BY <2>1, <2>2, ChildRows, ChildOK, OneRowOK
<1>4. RowsOK("unblockneteasemusic", "migu_cookie" :> Optional("", "",
        When("music_source", {"migu"})))
    <2>1. "migu_cookie" \notin Known /\ "migu_cookie" \in Children BY DEF Known, Parents, Children
    <2>2. "music_source" \in Parents BY DEF Parents
    <2> QED BY <2>1, <2>2, ChildRows, ChildOK, OneRowOK
<1>5. RowsOK("unblockneteasemusic", "qq_cookie" :> Needed("", "", When("music_source",
        {"qq"})))
    <2>1. "qq_cookie" \notin Known /\ "qq_cookie" \in Children BY DEF Known, Parents, Children
    <2>2. "music_source" \in Parents BY DEF Parents
    <2> QED BY <2>1, <2>2, ChildRows, ChildOK, OneRowOK
<1>6. RowsOK("unblockneteasemusic", "youtube_key" :> Optional("", "",
        When("music_source", {"youtube"})))
    <2>1. "youtube_key" \notin Known /\ "youtube_key" \in Children BY DEF Known, Parents, Children
    <2>2. "music_source" \in Parents BY DEF Parents
    <2> QED BY <2>1, <2>2, ChildRows, ChildOK, OneRowOK
<1>7. RowsOK("unblockneteasemusic", "enable_flac" :> Removable(When("music_source",
        Lossless)))
    <2>1. RowOK("unblockneteasemusic", "enable_flac", Removable(When("music_source",
            Lossless)))
        BY WhenOK DEF RowOK, Differs, Disagree, Stored, Parents, Selects, Children,
               PresetZero, PresetStd, Unset, Removable, Option, Always
    <2> QED BY <2>1, OneRowOK
<1>8. RowsOK("unblockneteasemusic", "select_max_br" :> Removable(When("enable_flac",
        {"1"})))
    <2>1. "select_max_br" \notin Known /\ "select_max_br" \in Children BY DEF Known, Parents, Children
    <2>2. "enable_flac" \in Parents BY DEF Parents
    <2> QED BY <2>1, <2>2, ChildRows, ChildOK, OneRowOK
<1> QED BY <1>1, <1>2, <1>3, <1>4, <1>5, <1>6, <1>7, <1>8, JoinOK DEF UnblockSources

LEMMA UnblockClientOK == RowsOK("unblockneteasemusic", UnblockClient)
<1>1. RowsOK("unblockneteasemusic", [o \in {"follow_source_order", "search_album",
        "disable_upgrade_check", "block_ads", "auto_update"} |-> Removable(Always)])
    <2> DEFINE r == Removable(Always)
    <2>1. RowOK("unblockneteasemusic", "follow_source_order", r)
        BY DEF RowOK, Differs, Disagree, Stored, Parents, Selects, Children,
               PresetZero, PresetStd, Unset, Removable, Always, Option
    <2>2. RowOK("unblockneteasemusic", "search_album", r)
        BY DEF RowOK, Differs, Disagree, Stored, Parents, Selects, Children,
               PresetZero, PresetStd, Unset, Removable, Always, Option
    <2>3. RowOK("unblockneteasemusic", "disable_upgrade_check", r)
        BY DEF RowOK, Differs, Disagree, Stored, Parents, Selects, Children,
               PresetZero, PresetStd, Unset, Removable, Always, Option
    <2>4. RowOK("unblockneteasemusic", "block_ads", r)
        BY DEF RowOK, Differs, Disagree, Stored, Parents, Selects, Children,
               PresetZero, PresetStd, Unset, Removable, Always, Option
    <2>5. RowOK("unblockneteasemusic", "auto_update", r)
        BY DEF RowOK, Differs, Disagree, Stored, Parents, Selects, Children,
               PresetZero, PresetStd, Unset, Removable, Always, Option
    <2> QED BY <2>1, <2>2, <2>3, <2>4, <2>5 DEF RowsOK
<1>2. RowsOK("unblockneteasemusic", "replace_music_source" :> Optional("dont_replace",
        "dont_replace", Always))
    <2>1. "replace_music_source" \notin Known BY DEF Known, Parents
    <2> QED BY <2>1, PlainRows, PlainOK, OneRowOK
<1>3. RowsOK("unblockneteasemusic", "local_vip" :> Optional("", "", Always))
    <2>1. "local_vip" \notin Known BY DEF Known, Parents
    <2> QED BY <2>1, PlainRows, PlainOK, OneRowOK
<1>4. RowsOK("unblockneteasemusic", "update_time" :> Optional("std", "std",
        When("auto_update", {"1"})))
    <2>1. RowOK("unblockneteasemusic", "update_time", Optional("std", "std",
            When("auto_update", {"1"})))
        BY WhenOK DEF RowOK, Differs, Disagree, Stored, Parents, Selects, Children,
               PresetZero, PresetStd, Unset, Optional, Option, Always
    <2> QED BY <2>1, OneRowOK
<1> QED BY <1>1, <1>2, <1>3, <1>4, JoinOK DEF UnblockClient

LEMMA UnblockAccessOK == RowsOK("unblockneteasemusic", UnblockAccess)
<1>1. RowsOK("unblockneteasemusic", [o \in {"pub_access", "strict_mode"} |->
        Removable(When("advanced_mode", {"1"}))])
    <2> DEFINE r == Removable(When("advanced_mode", {"1"}))
    <2>1. RowOK("unblockneteasemusic", "pub_access", r)
        BY WhenOK DEF RowOK, Differs, Disagree, Stored, Parents, Selects, Children,
               PresetZero, PresetStd, Unset, Removable, Option, Always
    <2>2. RowOK("unblockneteasemusic", "strict_mode", r)
        <3>1. "strict_mode" \notin Known /\ "strict_mode" \in Children
            BY DEF Known, Parents, Children
        <3>2. "advanced_mode" \in Parents BY DEF Parents
        <3> QED BY <3>1, <3>2, ChildRows, ChildOK
    <2> QED BY <2>1, <2>2 DEF RowsOK
<1> QED BY <1>1, JoinOK DEF UnblockAccess

LEMMA UnblockAdvancedOK == RowsOK("unblockneteasemusic", UnblockAdvanced)
<1> DEFINE advanced == When("advanced_mode", {"1"})
<1>1. RowsOK("unblockneteasemusic", "advanced_mode" :> Removable(Always))
    <2>1. RowOK("unblockneteasemusic", "advanced_mode", Removable(Always))
        BY DEF RowOK, Differs, Disagree, Stored, Parents, Selects, Children,
               PresetZero, PresetStd, Unset, Removable, Always, Option
    <2> QED BY <2>1, OneRowOK
<1>2. RowsOK("unblockneteasemusic", [o \in {"http_port", "https_port"} |-> Needed("std",
        "std", When("hijack_ways", {"dont_hijack", "use_ipset"}))])
    <2> DEFINE r == Needed("std", "std", When("hijack_ways", {"dont_hijack", "use_ipset"}))
    <2>1. RowOK("unblockneteasemusic", "http_port", r)
        BY WhenOK DEF RowOK, Differs, Disagree, Stored, Parents, Selects, Children,
               PresetZero, PresetStd, Unset, Needed, Option, Always
    <2>2. RowOK("unblockneteasemusic", "https_port", r)
        BY WhenOK DEF RowOK, Differs, Disagree, Stored, Parents, Selects, Children,
               PresetZero, PresetStd, Unset, Needed, Option, Always
    <2> QED BY <2>1, <2>2 DEF RowsOK
<1>3. RowsOK("unblockneteasemusic", "hijack_ways" :> Needed("dont_hijack", "use_ipset",
        advanced))
    <2>1. RowOK("unblockneteasemusic", "hijack_ways", Needed("dont_hijack", "use_ipset",
            advanced))
        BY WhenOK DEF RowOK, Differs, Disagree, Stored, Parents, Selects, Children,
               PresetZero, PresetStd, Unset, Needed, Option, Always
    <2> QED BY <2>1, OneRowOK
<1>4. RowsOK("unblockneteasemusic", [o \in {"log_level", "self_issue_cert_crt",
        "self_issue_cert_key"} |-> Optional("std", "std", advanced)])
    <2>1. \A o \in {"log_level", "self_issue_cert_crt", "self_issue_cert_key"} : o \notin
            Known /\ o \in Children
        BY DEF Known, Parents, Children
    <2>2. "advanced_mode" \in Parents BY DEF Parents
    <2> QED BY <2>1, <2>2, ChildRows, ChildOK DEF RowsOK
<1>5. RowsOK("unblockneteasemusic", "endpoint_url" :> Needed("std", "std", advanced))
    <2>1. "endpoint_url" \notin Known /\ "endpoint_url" \in Children BY DEF Known, Parents, Children
    <2>2. "advanced_mode" \in Parents BY DEF Parents
    <2> QED BY <2>1, <2>2, ChildRows, ChildOK, OneRowOK
<1>6. RowsOK("unblockneteasemusic", [o \in {"cnrelay", "netease_server_ip",
        "proxy_server_ip"} |-> Optional("", "", advanced)])
    <2>1. \A o \in {"cnrelay", "netease_server_ip", "proxy_server_ip"} : o \notin Known /\ o
            \in Children
        BY DEF Known, Parents, Children
    <2>2. "advanced_mode" \in Parents BY DEF Parents
    <2> QED BY <2>1, <2>2, ChildRows, ChildOK DEF RowsOK
<1> QED BY <1>1, <1>2, <1>3, <1>4, <1>5, <1>6, JoinOK DEF UnblockAdvanced

LEMMA TimecontrolOK == RowsOK("timecontrol", Timecontrol)
<1>1. RowsOK("timecontrol", [o \in {"timestart", "timeend"} |-> Optional("std", "std",
        When("time_mode", {"period", "combined"}))])
    <2> DEFINE r == Optional("std", "std", When("time_mode", {"period", "combined"}))
    <2>1. RowOK("timecontrol", "timestart", r)
        BY WhenOK DEF RowOK, Differs, Disagree, Stored, Parents, Selects, Children,
               PresetZero, PresetStd, Unset, Optional, Option, Always
    <2>2. RowOK("timecontrol", "timeend", r)
        BY WhenOK DEF RowOK, Differs, Disagree, Stored, Parents, Selects, Children,
               PresetZero, PresetStd, Unset, Optional, Option, Always
    <2> QED BY <2>1, <2>2 DEF RowsOK
<1>2. RowsOK("timecontrol", [o \in {"duration", "reset_cycle"} |-> Optional("std",
        "std", When("time_mode", {"duration", "combined"}))])
    <2>1. \A o \in {"duration", "reset_cycle"} : o \notin Known /\ o \in Children
        BY DEF Known, Parents, Children
    <2>2. "time_mode" \in Parents BY DEF Parents
    <2> QED BY <2>1, <2>2, ChildRows, ChildOK DEF RowsOK
<1>3. RowsOK("timecontrol", "use_duration" :> Removable(When("time_mode",
        {"combined"})))
    <2>1. "use_duration" \notin Known /\ "use_duration" \in Children BY DEF Known, Parents, Children
    <2>2. "time_mode" \in Parents BY DEF Parents
    <2> QED BY <2>1, <2>2, ChildRows, ChildOK, OneRowOK
<1>4. RowsOK("timecontrol", "time_mode" :> Needed("period", "period", Always))
    <2>1. RowOK("timecontrol", "time_mode", Needed("period", "period", Always))
        BY DEF RowOK, Differs, Disagree, Stored, Parents, Selects, Children,
               PresetZero, PresetStd, Unset, Needed, Always, Option
    <2> QED BY <2>1, OneRowOK
<1>5. RowsOK("timecontrol", "enable" :> Flag("1", "0", Always))
    <2>1. RowOK("timecontrol", "enable", Flag("1", "0", Always))
        BY DEF RowOK, Differs, Disagree, Stored, Parents, Selects, Children,
               PresetZero, PresetStd, Unset, Flag, Always, Option
    <2> QED BY <2>1, OneRowOK
<1>6. RowsOK("timecontrol", "mac" :> Needed("", "", Always))
    <2>1. "mac" \notin Known BY DEF Known, Parents
    <2> QED BY <2>1, PlainRows, PlainOK, OneRowOK
<1>7. RowsOK("timecontrol", [o \in {"week", "list_type", "chain"} |-> Needed("std",
        "std", Always)])
    <2>1. \A o \in {"week", "list_type", "chain"} : o \notin Known
        BY DEF Known, Parents
    <2> QED BY <2>1, PlainRows, PlainOK DEF RowsOK
<1>8. RowsOK("timecontrol", "comment" :> Optional("", "", Always))
    <2>1. "comment" \notin Known BY DEF Known, Parents
    <2> QED BY <2>1, PlainRows, PlainOK, OneRowOK
<1> QED BY <1>1, <1>2, <1>3, <1>4, <1>5, <1>6, <1>7, <1>8, JoinOK DEF Timecontrol

LEMMA DdnsGoOK == RowsOK("ddnsgo", DdnsGo)
<1>1. RowsOK("ddnsgo", [o \in {"enabled", "noweb"} |-> Flag("0", "0", Always)])
    <2> DEFINE r == Flag("0", "0", Always)
    <2>1. RowOK("ddnsgo", "enabled", r)
        BY DEF RowOK, Differs, Disagree, Stored, Parents, Selects, Children,
               PresetZero, PresetStd, Unset, Flag, Always, Option
    <2>2. RowOK("ddnsgo", "noweb", r)
        BY DEF RowOK, Differs, Disagree, Stored, Parents, Selects, Children,
               PresetZero, PresetStd, Unset, Flag, Always, Option
    <2> QED BY <2>1, <2>2 DEF RowsOK
<1>2. RowsOK("ddnsgo", "port" :> Needed("std", "std", Always))
    <2>1. "port" \notin Known BY DEF Known, Parents
    <2> QED BY <2>1, PlainRows, PlainOK, OneRowOK
<1>3. RowsOK("ddnsgo", [o \in {"time", "ctimes", "skipverify"} |-> Optional("std",
        "std", Always)])
    <2>1. \A o \in {"time", "ctimes", "skipverify"} : o \notin Known
        BY DEF Known, Parents
    <2> QED BY <2>1, PlainRows, PlainOK DEF RowsOK
<1>4. RowsOK("ddnsgo", "dns" :> Optional("", "std", Always))
    <2>1. "dns" \notin Known BY DEF Known, Parents
    <2> QED BY <2>1, PlainRows, PlainOK, OneRowOK
<1>5. RowsOK("ddnsgo", "delay" :> Optional("60", "0", Always))
    <2>1. RowOK("ddnsgo", "delay", Optional("60", "0", Always))
        BY DEF RowOK, Differs, Disagree, Stored, Parents, Selects, Children,
               PresetZero, PresetStd, Unset, Optional, Always, Option
    <2> QED BY <2>1, OneRowOK
<1> QED BY <1>1, <1>2, <1>3, <1>4, <1>5, JoinOK DEF DdnsGo

LEMMA Mwan3LinkOK == RowsOK("mwan3", Mwan3Link)
<1>1. RowsOK("mwan3", "enabled" :> Removable(Always))
    <2>1. RowOK("mwan3", "enabled", Removable(Always))
        BY DEF RowOK, Differs, Disagree, Stored, Parents, Selects, Children,
               PresetZero, PresetStd, Unset, Removable, Always, Option
    <2> QED BY <2>1, OneRowOK
<1>2. RowsOK("mwan3", "initial_state" :> Optional("std", "std", Always))
    <2>1. "initial_state" \notin Known BY DEF Known, Parents
    <2> QED BY <2>1, PlainRows, PlainOK, OneRowOK
<1>3. RowsOK("mwan3", "family" :> Optional("ipv4", "ipv4", Always))
    <2>1. RowOK("mwan3", "family", Optional("ipv4", "ipv4", Always))
        BY DEF RowOK, Differs, Disagree, Stored, Parents, Selects, Children,
               PresetZero, PresetStd, Unset, Optional, Always, Option
    <2> QED BY <2>1, OneRowOK
<1>4. RowsOK("mwan3", "track_gateway" :> Removable(When("family", {"ipv4"})))
    <2>1. "track_gateway" \notin Known /\ "track_gateway" \in Children BY DEF Known, Parents, Children
    <2>2. "family" \in Parents BY DEF Parents
    <2> QED BY <2>1, <2>2, ChildRows, ChildOK, OneRowOK
<1>5. RowsOK("mwan3", "snat6" :> Optional("", "", When("family", {"ipv6"})))
    <2>1. "snat6" \notin Known /\ "snat6" \in Children BY DEF Known, Parents, Children
    <2>2. "family" \in Parents BY DEF Parents
    <2> QED BY <2>1, <2>2, ChildRows, ChildOK, OneRowOK
<1>6. RowsOK("mwan3", "track_ip" :> Optional("", "", Always))
    <2>1. "track_ip" \notin Known BY DEF Known, Parents
    <2> QED BY <2>1, PlainRows, PlainOK, OneRowOK
<1>7. RowsOK("mwan3", "track_method" :> Optional("ping", "ping", Always))
    <2>1. RowOK("mwan3", "track_method", Optional("ping", "ping", Always))
        BY DEF RowOK, Differs, Disagree, Stored, Parents, Selects, Children,
               PresetZero, PresetStd, Unset, Optional, Always, Option
    <2> QED BY <2>1, OneRowOK
<1>8. RowsOK("mwan3", "httping_ssl" :> Flag("0", "0", When("track_method",
        {"httping"})))
    <2>1. "httping_ssl" \notin Known /\ "httping_ssl" \in Children BY DEF Known, Parents, Children
    <2>2. "track_method" \in Parents BY DEF Parents
    <2> QED BY <2>1, <2>2, ChildRows, ChildOK, OneRowOK
<1> QED BY <1>1, <1>2, <1>3, <1>4, <1>5, <1>6, <1>7, <1>8, JoinOK DEF Mwan3Link

LEMMA Mwan3ProbeOK == RowsOK("mwan3", Mwan3Probe)
<1>1. RowsOK("mwan3", [o \in {"reliability", "count"} |-> Optional("std", "std",
        Always)])
    <2>1. \A o \in {"reliability", "count"} : o \notin Known
        BY DEF Known, Parents
    <2> QED BY <2>1, PlainRows, PlainOK DEF RowsOK
<1>2. RowsOK("mwan3", [o \in {"size", "max_ttl"} |-> Optional("std", "std",
        When("track_method", {"ping"}))])
    <2>1. \A o \in {"size", "max_ttl"} : o \notin Known /\ o \in Children
        BY DEF Known, Parents, Children
    <2>2. "track_method" \in Parents BY DEF Parents
    <2> QED BY <2>1, <2>2, ChildRows, ChildOK DEF RowsOK
<1>3. RowsOK("mwan3", "check_quality" :> Removable(When("track_method", {"ping"})))
    <2>1. RowOK("mwan3", "check_quality", Removable(When("track_method", {"ping"})))
        BY WhenOK DEF RowOK, Differs, Disagree, Stored, Parents, Selects, Children,
               PresetZero, PresetStd, Unset, Removable, Option, Always
    <2> QED BY <2>1, OneRowOK
<1>4. RowsOK("mwan3", [o \in {"failure_latency", "failure_loss", "recovery_latency",
        "recovery_loss"} |-> Optional("std", "std", When("check_quality", {"1"}))])
    <2>1. \A o \in {"failure_latency", "failure_loss", "recovery_latency", "recovery_loss"}
            : o \notin Known /\ o \in Children
        BY DEF Known, Parents, Children
    <2>2. "check_quality" \in Parents BY DEF Parents
    <2> QED BY <2>1, <2>2, ChildRows, ChildOK DEF RowsOK
<1> QED BY <1>1, <1>2, <1>3, <1>4, JoinOK DEF Mwan3Probe

LEMMA Mwan3RoundsOK == RowsOK("mwan3", Mwan3Rounds)
<1>1. RowsOK("mwan3", [o \in {"timeout", "down", "up"} |-> Optional("std", "std",
        Always)])
    <2>1. \A o \in {"timeout", "down", "up"} : o \notin Known
        BY DEF Known, Parents
    <2> QED BY <2>1, PlainRows, PlainOK DEF RowsOK
<1>2. RowsOK("mwan3", "interval" :> Optional("10", "10", Always))
    <2>1. "interval" \notin Known BY DEF Known, Parents
    <2> QED BY <2>1, PlainRows, PlainOK, OneRowOK
<1>3. RowsOK("mwan3", [o \in {"failure_interval", "recovery_interval"} |-> Optional("5",
        "10", Always)])
    <2> DEFINE r == Optional("5", "10", Always)
    <2>1. RowOK("mwan3", "failure_interval", r)
        BY DEF RowOK, Differs, Disagree, Stored, Parents, Selects, Children,
               PresetZero, PresetStd, Unset, Optional, Always, Option
    <2>2. RowOK("mwan3", "recovery_interval", r)
        BY DEF RowOK, Differs, Disagree, Stored, Parents, Selects, Children,
               PresetZero, PresetStd, Unset, Optional, Always, Option
    <2> QED BY <2>1, <2>2 DEF RowsOK
<1>4. RowsOK("mwan3", "keep_failure_interval" :> Removable(Always))
    <2>1. "keep_failure_interval" \notin Known BY DEF Known, Parents
    <2> QED BY <2>1, PlainRows, PlainOK, OneRowOK
<1>5. RowsOK("mwan3", "flush_conntrack" :> Optional("", "", Always))
    <2>1. "flush_conntrack" \notin Known BY DEF Known, Parents
    <2> QED BY <2>1, PlainRows, PlainOK, OneRowOK
<1> QED BY <1>1, <1>2, <1>3, <1>4, <1>5, JoinOK DEF Mwan3Rounds

-----------------------------------------------------------------------------
(* The installed files *)

\* An installed file sets no empty value, and of an option with a parent only
\* the script's own default.
FileOK(file) ==
    \A o \in DOMAIN file :
        /\ file[o] # "" /\ file[o] # Unset
        /\ o \notin Children /\ o # "advanced_mode"
        /\ o \in PresetZero => file[o] = "0"
        /\ o \in PresetStd => file[o] = "std"

LEMMA JoinFileOK ==
    ASSUME NEW f, NEW g, FileOK(f), FileOK(g)
    PROVE  FileOK(f @@ g)
<1> SUFFICES ASSUME NEW o \in DOMAIN (f @@ g)
             PROVE  \/ o \in DOMAIN f /\ (f @@ g)[o] = f[o]
                    \/ o \in DOMAIN g /\ (f @@ g)[o] = g[o]
    BY DEF FileOK
<1> QED BY DEF @@

LEMMA OneLineOK ==
    ASSUME NEW o, NEW v, v # "", v # Unset, o \notin Children, o \notin PresetZero,
           o \notin PresetStd, o # "advanced_mode"
    PROVE  FileOK(o :> v)
BY DEF FileOK, :>

LEMMA DomainOK ==
    /\ \A f, g, o : o \in DOMAIN (f @@ g) <=> o \in DOMAIN f \/ o \in DOMAIN g
    /\ \A x, r, o : o \in DOMAIN (x :> r) <=> o = x
BY DEF @@, :>

LEMMA Openlist2FileOK == FileOK(Openlist2File)
<1>1. FileOK([o \in {"enabled", "allow_wan", "log_compress", "ssl", "allow_retry_canceled",
                     "s3", "mcp", "delayed_start"} |-> "0"])
    <2>1. \A o \in {"enabled", "allow_wan", "log_compress", "ssl", "allow_retry_canceled",
                    "s3", "mcp", "delayed_start"} :
              o \notin Children /\ o \notin PresetStd /\ o # "advanced_mode"
        BY DEF Children, PresetStd
    <2> QED BY <2>1 DEF FileOK, Unset
<1>2. FileOK([o \in {"force", "tls_insecure_skip_verify", "log"} |-> "1"])
    BY DEF FileOK, Children, PresetZero, PresetStd, Unset
<1>3. FileOK([o \in {"port", "token_expires_in", "max_connections",
                     "auto_memory_limit", "min_free_memory", "max_block_limit", "data_dir",
                     "temp_dir", "log_max_size", "log_max_backups", "log_max_age",
                     "cors_allow_origins", "cors_allow_methods", "cors_allow_headers"}
                |-> "std"])
    <2>1. \A o \in {"port", "token_expires_in", "max_connections",
                   "auto_memory_limit", "min_free_memory", "max_block_limit", "data_dir",
                   "temp_dir", "log_max_size", "log_max_backups", "log_max_age",
                   "cors_allow_origins", "cors_allow_methods", "cors_allow_headers"} :
              o \notin Children /\ o \notin PresetZero /\ o # "advanced_mode"
        BY DEF Children, PresetZero
    <2> QED BY <2>1 DEF FileOK, Unset
<1>4. FileOK([o \in DOMAIN Openlist2Tasks \ {"allow_retry_canceled"} |-> "std"])
    <2>1. \A o \in Children \cup PresetZero \cup {"advanced_mode"} : o \notin DOMAIN Openlist2Tasks
        BY DomainOK DEF Openlist2Tasks, Children, PresetZero
    <2> QED BY <2>1 DEF FileOK, Unset
<1>5. FileOK("max_concurrency" :> "64") /\ FileOK("database_type" :> "sqlite3")
    BY OneLineOK DEF Children, PresetZero, PresetStd, Unset
<1> QED BY <1>1, <1>2, <1>3, <1>4, <1>5, JoinFileOK DEF Openlist2File

LEMMA UnblockFileOK == FileOK(UnblockFile)
<1>1. /\ FileOK("enable" :> "0") /\ FileOK("disable_upgrade_check" :> "1")
      /\ FileOK("auto_update" :> "1")
    BY OneLineOK DEF Children, PresetZero, PresetStd, Unset
<1>2. FileOK("update_time" :> "std")
    BY DEF FileOK, Children, PresetZero, PresetStd, Unset, :>
<1> QED BY <1>1, <1>2, JoinFileOK DEF UnblockFile

LEMMA TimecontrolFileOK == FileOK(TimecontrolFile)
<1>1. FileOK("enable" :> "0") /\ FileOK("chain" :> "input")
    BY OneLineOK DEF Children, PresetZero, PresetStd, Unset
<1>2. FileOK([o \in {"timestart", "timeend", "mac", "week", "list_type"} |-> "std"])
    BY DEF FileOK, Children, PresetZero, PresetStd, Unset
<1> QED BY <1>1, <1>2, JoinFileOK DEF TimecontrolFile

LEMMA DdnsGoFileOK == FileOK(DdnsGoFile)
<1>1. FileOK([o \in {"enabled", "delay"} |-> "0"])
    BY DEF FileOK, Children, PresetZero, PresetStd, Unset
<1>2. FileOK([o \in {"port", "time", "ctimes", "skipverify", "dns"} |-> "std"])
    BY DEF FileOK, Children, PresetZero, PresetStd, Unset
<1> QED BY <1>1, <1>2, JoinFileOK DEF DdnsGoFile

LEMMA Mwan3FileOK == FileOK(Mwan3File)
<1>1. FileOK("enabled" :> "0") /\ FileOK("family" :> "ipv4")
    BY OneLineOK DEF Children, PresetZero, PresetStd, Unset
<1>2. FileOK([o \in {"track_ip", "reliability"} |-> "other"])
    BY DEF FileOK, Children, PresetZero, PresetStd, Unset
<1> QED BY <1>1, <1>2, JoinFileOK DEF Mwan3File

-----------------------------------------------------------------------------
(* What the argument uses of a page *)

PageOK(p, T, file) ==
    /\ RowsOK(p, T) /\ FileOK(file)
    /\ \A o \in Stored(p) : o \in DOMAIN file
    /\ p = "unblockneteasemusic" => "hijack_ways" \in DOMAIN T

LEMMA PagesOK == \A p \in Pages : PageOK(p, Tables[p], Installed[p])
<1>1. PageOK("openlist2", Openlist2, Openlist2File)
    <2>1. RowsOK("openlist2", Openlist2)
        BY JoinOK, Openlist2BasicOK, Openlist2LimitsOK, Openlist2LogOK, Openlist2DatabaseOK,
           Openlist2SchemeOK, Openlist2HttpsOK, Openlist2TasksOK, Openlist2ServersOK
           DEF Openlist2
    <2>2. "enabled" \in DOMAIN Openlist2File /\ "max_concurrency" \in DOMAIN Openlist2File
        BY DomainOK DEF Openlist2File
    <2> QED BY <2>1, <2>2, Openlist2FileOK DEF PageOK, Stored
<1>2. PageOK("unblockneteasemusic", Unblock, UnblockFile)
    <2>1. RowsOK("unblockneteasemusic", Unblock)
        BY JoinOK, UnblockSourcesOK, UnblockClientOK, UnblockAccessOK, UnblockAdvancedOK
           DEF Unblock
    <2>2. "hijack_ways" \in DOMAIN UnblockAdvanced BY DEF UnblockAdvanced, @@, :>
    <2>3. "hijack_ways" \in DOMAIN Unblock BY <2>2, DomainOK DEF Unblock
    <2> QED BY <2>1, <2>3, UnblockFileOK DEF PageOK, Stored
<1>3. PageOK("timecontrol", Timecontrol, TimecontrolFile)
    <2>1. "enable" \in DOMAIN TimecontrolFile BY DomainOK DEF TimecontrolFile
    <2> QED BY <2>1, TimecontrolOK, TimecontrolFileOK DEF PageOK, Stored
<1>4. PageOK("ddnsgo", DdnsGo, DdnsGoFile)
    BY DdnsGoOK, DdnsGoFileOK DEF PageOK, Stored
<1>5. PageOK("mwan3", Mwan3Interface, Mwan3File)
    <2>1. RowsOK("mwan3", Mwan3Interface)
        BY JoinOK, Mwan3LinkOK, Mwan3ProbeOK, Mwan3RoundsOK DEF Mwan3Interface
    <2> QED BY <2>1, Mwan3FileOK DEF PageOK, Stored
<1> QED BY <1>1, <1>2, <1>3, <1>4, <1>5, PagesAreForms DEF Tables, Installed

-----------------------------------------------------------------------------
(* The mechanics of a form *)

\* What the row of an option of this page says, in the words of the argument.
LEMMA RowFacts ==
    ASSUME page \in Pages, NEW o \in Options
    PROVE  RowOK(page, o, Table[o])
BY PagesOK DEF PageOK, RowsOK, Table, Options

LEMMA ShownSame ==
    ASSUME page \in Pages, NEW f, NEW g, NEW A,
           \A p \in A \cap Parents : f[p] = g[p]
    PROVE  Shown(f, A) = Shown(g, A)
<1>1. ASSUME NEW o \in Options, NEW d \in Table[o].depends, d[1] \in A
      PROVE  f[d[1]] = g[d[1]]
    BY <1>1, RowFacts DEF RowOK
<1> QED BY <1>1 DEF Shown

LEMMA ShownMonotone ==
    ASSUME NEW f, NEW A, NEW B, A \subseteq B
    PROVE  Shown(f, A) \subseteq Shown(f, B)
BY DEF Shown

\* The three rounds only add options.
LEMMA RoundsGrow ==
    ASSUME NEW f
    PROVE  /\ Shown(f, {}) \subseteq Shown(f, Shown(f, {}))
           /\ Shown(f, Shown(f, {})) \subseteq Active(f)
           /\ Active(f) \subseteq Options
<1>1. Shown(f, {}) \subseteq Shown(f, Shown(f, {})) BY ShownMonotone
<1>2. Shown(f, Shown(f, {})) \subseteq Active(f) BY <1>1, ShownMonotone DEF Active
<1> QED BY <1>1, <1>2 DEF Active, Shown

\* Two forms that agree on the parents shown show the same options.
LEMMA ActiveSame ==
    ASSUME page \in Pages, NEW f, NEW g, \A p \in Active(f) \cap Parents : f[p] = g[p]
    PROVE  Active(f) = Active(g)
<1>1. Shown(f, {}) = Shown(g, {}) BY ShownSame
<1>2. Shown(f, Shown(f, {})) = Shown(g, Shown(g, {})) BY <1>1, RoundsGrow, ShownSame
<1> QED BY <1>2, RoundsGrow, ShownSame DEF Active

\* An option without depends() is always shown; one whose parent is not is not.
LEMMA TopActive ==
    ASSUME NEW f, NEW o \in Options, Table[o].depends = {}
    PROVE  o \in Active(f)
BY DEF Active, Shown

\* Two options with the same parent are shown together.
LEMMA ShownTogether ==
    ASSUME NEW f, NEW o \in Options, NEW q \in Options, Table[o].depends = Table[q].depends
    PROVE  o \in Active(f) <=> q \in Active(f)
BY DEF Active, Shown

\* hijack_ways is shown with the advanced settings only.
LEMMA HijackShown ==
    ASSUME page \in Pages, NEW f, "hijack_ways" \in Active(f)
    PROVE  "advanced_mode" \in Options /\ f["advanced_mode"] = "1"
<1>1. "hijack_ways" \in Options BY RoundsGrow
<1>2. Table["hijack_ways"].depends = {<<"advanced_mode", {"1"}>>}
    BY <1>1, RowFacts DEF RowOK, When
<1>3. PICK d \in Table["hijack_ways"].depends :
          d[1] \in Shown(f, Shown(f, {})) /\ f[d[1]] \in d[2]
    BY <1>2 DEF Active, Shown
<1>4. d = <<"advanced_mode", {"1"}>> BY <1>2, <1>3
<1>5. "advanced_mode" \in Shown(f, Shown(f, {})) /\ f["advanced_mode"] = "1" BY <1>3, <1>4
<1> QED BY <1>5, RoundsGrow

-----------------------------------------------------------------------------
(* The invariant *)

\* What the widgets hold: never the mark of an option that is not stored, and
\* something in every option a dependency looks at, music_source excepted.
FormOK(f) ==
    /\ DOMAIN f = Options
    /\ \A o \in Options : f[o] # Unset
    /\ \A o \in Options \cap Parents : o = "music_source" \/ f[o] # ""

\* What is stored: no empty value, always the options of Stored, of a hidden
\* option nothing but the script's own default, and hijack_ways once it is shown.
UciOK(u) ==
    /\ \A o \in Options : u[o] # ""
    /\ \A o \in Options : Differs(o, Table[o]) => u[o] # Unset
    /\ \A o \in Options : o \in Active(Load(u)) \/ u[o] = Unset \/ u[o] = Table[o].service
    /\ "hijack_ways" \in Active(Load(u)) => u["hijack_ways"] # Unset

\* The service of openlist2 has a secret.
SecretOK(run) == "jwt_secret" \in Options => run["jwt_secret"] # ""

FormsInv == page \in Pages /\ FormOK(form) /\ UciOK(uci) /\ SecretOK(running)

\* A form rendered from what is stored is in order.
LEMMA LoadOK ==
    ASSUME page \in Pages, NEW u, UciOK(u)
    PROVE  FormOK(Load(u))
<1> SUFFICES ASSUME NEW o \in Options
             PROVE  Load(u)[o] # Unset /\ (o \in Parents => o = "music_source" \/ Load(u)[o] # "")
    BY DEF FormOK, Load
<1>1. Table[o].default # Unset /\ (o \in Parents => o = "music_source" \/ Table[o].default # "")
    BY RowFacts DEF RowOK
<1>2. u[o] # "" BY DEF UciOK
<1> QED BY <1>1, <1>2 DEF Load

\* A saved form shows the same options when it is rendered again.
LEMMA StoreShowsSame ==
    ASSUME page \in Pages, NEW f, FormOK(f)
    PROVE  Active(Load(Store(f))) = Active(f)
<1> DEFINE g == Load(Store(f))
<1>1. ASSUME NEW p \in Active(f) \cap Parents PROVE f[p] = g[p]
    <2>1. p \in Options BY RoundsGrow
    <2>2. RowOK(page, p, Table[p]) BY <2>1, RowFacts
    <2>3. g[p] = IF Store(f)[p] # Unset THEN Store(f)[p] ELSE Table[p].default
        BY <2>1 DEF Load
    <2>4. Store(f)[p] = IF f[p] = "" \/ (Table[p].kind = "flag" /\ ~Table[p].required /\ f[p] = Table[p].default)
                        THEN Unset ELSE f[p]
        BY <2>1, <1>1 DEF Store
    <2>5. f[p] # Unset /\ (p = "music_source" \/ f[p] # "") BY <2>1 DEF FormOK
    <2>6. p = "music_source" => Table[p].default = "" BY <2>2 DEF RowOK
    <2> HIDE DEF g
    <2> QED BY <2>3, <2>4, <2>5, <2>6
<1> QED BY <1>1, ActiveSame

\* What a valid form stores is in order.
LEMMA StoreOK ==
    ASSUME page \in Pages, NEW f, FormOK(f), Valid(f)
    PROVE  UciOK(Store(f))
<1>1. ASSUME NEW o \in Options PROVE Store(f)[o] # ""
    <2>1. Unset # "" BY DEF Unset
    <2> QED BY <2>1 DEF Store
<1>2. ASSUME NEW o \in Options, Differs(o, Table[o]) PROVE Store(f)[o] # Unset
    <2>1. Table[o].required /\ Table[o].depends = {} BY <1>2, RowFacts DEF RowOK
    <2>2. o \in Active(f) BY <2>1, TopActive
    <2>3. f[o] # "" BY <2>1, <2>2 DEF Valid
    <2>4. f[o] # Unset BY DEF FormOK
    <2>5. Store(f)[o] = f[o] BY <2>1, <2>2, <2>3 DEF Store
    <2> QED BY <2>4, <2>5
<1>3. ASSUME NEW o \in Options PROVE o \in Active(Load(Store(f))) \/ Store(f)[o] = Unset
    <2>1. CASE o \in Active(f) BY <2>1, StoreShowsSame
    <2>2. CASE o \notin Active(f) BY <2>2 DEF Store
    <2> QED BY <2>1, <2>2
<1>4. ASSUME "hijack_ways" \in Active(Load(Store(f))) PROVE Store(f)["hijack_ways"] # Unset
    <2> DEFINE h == "hijack_ways"
    <2>1. h \in Active(f) /\ h \in Options BY <1>4, StoreShowsSame, RoundsGrow
    <2>2. Table[h].required /\ Table[h].kind # "flag" BY <2>1, RowFacts DEF RowOK
    <2>3. f[h] # "" BY <2>1, <2>2 DEF Valid
    <2>4. f[h] # Unset BY <2>1 DEF FormOK
    <2>5. Store(f)[h] = f[h] BY <2>1, <2>2, <2>3 DEF Store
    <2> QED BY <2>4, <2>5
<1> QED BY <1>1, <1>2, <1>3, <1>4 DEF UciOK

\* The installed file is in order.
LEMMA PresetOK ==
    ASSUME page \in Pages
    PROVE  UciOK(Preset)
<1> DEFINE file == Installed[page]
<1>1. PageOK(page, Table, file) BY PagesOK DEF Table
<1> SUFFICES ASSUME NEW o \in Options
             PROVE  /\ Preset[o] # ""
                    /\ Differs(o, Table[o]) => Preset[o] # Unset
                    /\ o \in Active(Load(Preset)) \/ Preset[o] = Unset \/ Preset[o] = Table[o].service
    <2>1. ASSUME "hijack_ways" \in Active(Load(Preset)) PROVE FALSE
        <3>1. "advanced_mode" \in Options /\ Load(Preset)["advanced_mode"] = "1"
            BY <2>1, HijackShown
        <3>2. "advanced_mode" \notin DOMAIN file BY <1>1 DEF PageOK, FileOK
        <3>3. Preset["advanced_mode"] = Unset BY <3>1, <3>2 DEF Preset
        <3>4. Table["advanced_mode"].default = "0" BY <3>1, RowFacts DEF RowOK
        <3> QED BY <3>1, <3>3, <3>4 DEF Load
    <2> QED BY <2>1 DEF UciOK
<1>2. Preset[o] = IF o \in DOMAIN file THEN file[o] ELSE Unset BY DEF Preset
<1>3. RowOK(page, o, Table[o]) BY RowFacts
<1>4. o \in DOMAIN file => file[o] # "" /\ file[o] # Unset BY <1>1 DEF PageOK, FileOK
<1>5. Differs(o, Table[o]) => o \in DOMAIN file BY <1>1, <1>3 DEF PageOK, RowOK
<1>6. ASSUME o \in DOMAIN file, Table[o].depends # {} PROVE file[o] = Table[o].service
    BY <1>1, <1>3, <1>6 DEF PageOK, FileOK, RowOK
<1>7. Table[o].depends = {} => o \in Active(Load(Preset)) BY TopActive
<1>8. Unset # "" BY DEF Unset
<1> HIDE DEF file
<1> QED BY <1>2, <1>4, <1>5, <1>6, <1>7, <1>8

\* What the script reads of an option, and of hijack_ways.
Taken(u, o) == IF u[o] # Unset THEN u[o] ELSE Table[o].service
Hijack(u) == Taken(u, "hijack_ways")

\* What it runs an option with, apart from the two intervals of mwan3.
LEMMA EffectiveIs ==
    ASSUME NEW u, NEW l, NEW o \in Options, o \notin {"failure_interval", "recovery_interval"}
    PROVE  /\ o \in {"http_port", "https_port"} =>
                Effective(u, l)[o] = IF Hijack(u) = "use_hosts" THEN "web" ELSE Taken(u, o)
           /\ o = "pub_access" =>
                Effective(u, l)[o] = IF Fw4 /\ Hijack(u) # "use_ipset" THEN "0" ELSE Taken(u, o)
           /\ o = "delayed_start" => Effective(u, l)[o] = IF l THEN "0" ELSE Taken(u, o)
           /\ o \notin {"http_port", "https_port", "pub_access", "delayed_start"} =>
                Effective(u, l)[o] = Taken(u, o)
<1>1. CASE o \in {"http_port", "https_port"} BY <1>1 DEF Effective, Hijack, Taken
<1>2. CASE o = "pub_access" BY <1>2 DEF Effective, Hijack, Taken
<1>3. CASE o = "delayed_start" BY <1>3 DEF Effective, Hijack, Taken
<1>4. CASE o \notin {"http_port", "https_port", "pub_access", "delayed_start"}
    BY <1>4 DEF Effective, Hijack, Taken
<1> QED BY <1>1, <1>2, <1>3, <1>4

\* So is what the script leaves, which has a secret.
LEMMA StartedOK ==
    ASSUME page \in Pages, NEW u, UciOK(u)
    PROVE  /\ UciOK(Started(u))
           /\ "jwt_secret" \in Options => Started(u)["jwt_secret"] \notin {"", Unset}
<1> DEFINE v == Started(u)
<1>1. \A o \in Options : v[o] = IF o = "jwt_secret" /\ u[o] = Unset THEN "generated" ELSE u[o]
    BY DEF Started
<1>2. "generated" # "" /\ "generated" # Unset BY DEF Unset
<1>3. \A o \in Options : v[o] # "" BY <1>1, <1>2 DEF UciOK
<1>4. ASSUME NEW q \in Active(Load(u)) \cap Parents PROVE Load(u)[q] = Load(v)[q]
    <2>1. q \in Options /\ q # "jwt_secret" BY RoundsGrow DEF Parents
    <2> HIDE DEF v
    <2> QED BY <1>1, <2>1 DEF Load
<1>5. Active(Load(v)) = Active(Load(u)) BY <1>4, ActiveSame
<1>6. "jwt_secret" \in Options => "jwt_secret" \in Active(Load(v))
    BY RowFacts, TopActive DEF RowOK
<1>7. "hijack_ways" \in Active(Load(v)) => v["hijack_ways"] # Unset
    <2>1. "hijack_ways" \in Active(Load(u)) => "hijack_ways" \in Options BY RoundsGrow
    <2> HIDE DEF v
    <2> QED BY <1>1, <1>5, <2>1 DEF UciOK
<1> HIDE DEF v
<1>8. \A o \in Options : Differs(o, Table[o]) => v[o] # Unset BY <1>1, <1>2 DEF UciOK
<1>9. \A o \in Options : o \in Active(Load(v)) \/ v[o] = Unset \/ v[o] = Table[o].service
    BY <1>1, <1>5, <1>6 DEF UciOK
<1>10. UciOK(v) BY <1>3, <1>7, <1>8, <1>9 DEF UciOK
<1>11. "jwt_secret" \in Options => v["jwt_secret"] \notin {"", Unset}
    BY <1>1, <1>2, <1>3
<1> QED BY <1>10, <1>11 DEF v

LEMMA RunOK ==
    ASSUME page \in Pages, NEW u, UciOK(u), NEW l
    PROVE  SecretOK(Effective(Started(u), l))
<1> SUFFICES ASSUME "jwt_secret" \in Options
             PROVE  Effective(Started(u), l)["jwt_secret"] # ""
    BY DEF SecretOK
<1>1. Effective(Started(u), l)["jwt_secret"] = Taken(Started(u), "jwt_secret") BY EffectiveIs
<1>2. Started(u)["jwt_secret"] \notin {"", Unset} BY StartedOK
<1> QED BY <1>1, <1>2 DEF Taken

\* What the user can put into a field.
LEMMA ChoicesOK ==
    ASSUME page \in Pages, NEW o \in Options, NEW v \in Choices(o)
    PROVE  v # Unset /\ (o \in Parents => o = "music_source" \/ v # "")
<1>1. o \in Parents => Table[o].kind = "flag" \/ o \in Selects BY RowFacts DEF RowOK
<1>2. CASE Table[o].kind = "flag" BY <1>2 DEF Choices, Unset
<1>3. CASE Table[o].kind # "flag" /\ o \in Selects
    BY <1>3 DEF Choices, Selects, Unset
<1>4. CASE Table[o].kind # "flag" /\ o \notin Selects
    <2>1. o \notin Parents BY <1>1, <1>4
    <2>2. v # Unset BY <1>4 DEF Choices, Unset
    <2> QED BY <2>1, <2>2
<1> QED BY <1>2, <1>3, <1>4

\* The invariant: what is stored and what the widgets hold stay in order, on
\* every form and after any number of edits, saves, applies and resets.
THEOREM FormsInvariant == Spec => []FormsInv
<1>1. Init => FormsInv
    BY PresetOK, StartedOK, RunOK, LoadOK DEF Init, FormsInv
<1>2. FormsInv /\ [Next]_vars => FormsInv'
    <2> SUFFICES ASSUME FormsInv, [Next]_vars PROVE FormsInv' OBVIOUS
    <2>1. page' = page /\ page \in Pages /\ FormOK(form) /\ UciOK(uci) /\ SecretOK(running)
        BY DEF FormsInv, Next, change, save, apply, reset, vars
    <2>2. Table' = Table /\ Options' = Options BY <2>1 DEF Table, Options
    <2>3. ASSUME FormOK(form'), UciOK(uci'), SecretOK(running') PROVE FormsInv'
        <3>1. FormOK(form)' BY <2>2, <2>3 DEF FormOK
        <3>2. UciOK(uci)' BY <2>2, <2>3 DEF UciOK, Active, Shown, Load
        <3>3. SecretOK(running)' BY <2>2, <2>3 DEF SecretOK
        <3> QED BY <2>1, <3>1, <3>2, <3>3 DEF FormsInv
    <2>4. CASE change
        <3>1. PICK o \in Edited \cap Active(form) : \E v \in Choices(o) \ {form[o]} :
                  form' = [form EXCEPT ![o] = v]
            BY <2>4 DEF change
        <3>2. PICK v \in Choices(o) : form' = [form EXCEPT ![o] = v] BY <3>1
        <3>3. v # Unset /\ (o \in Parents => o = "music_source" \/ v # "")
            BY <2>1, <3>1, ChoicesOK DEF Active, Shown
        <3>4. uci' = uci /\ running' = running BY <2>4 DEF change
        <3>5. FormOK(form') BY <2>1, <3>2, <3>3 DEF FormOK
        <3> QED BY <2>1, <2>3, <3>4, <3>5
    <2>5. CASE save
        <3>1. Valid(form) /\ uci' = Store(form) BY <2>5 DEF save
        <3>2. UciOK(uci') BY <2>1, <3>1, StoreOK
        <3>3. form' = Load(uci') /\ running' = running BY <2>5 DEF save
        <3> QED BY <2>1, <2>3, <3>2, <3>3, LoadOK
    <2>6. CASE apply
        <3>1. /\ uci' = Started(uci) /\ form' = Load(Started(uci))
              /\ running' = Effective(Started(uci), late')
            BY <2>6 DEF apply
        <3> QED BY <2>1, <2>3, <3>1, StartedOK, RunOK, LoadOK
    <2>7. CASE reset
        <3>1. form' = Load(uci) /\ uci' = uci /\ running' = running BY <2>7 DEF reset
        <3> QED BY <2>1, <2>3, <3>1, LoadOK
    <2>8. CASE UNCHANGED vars
        BY <2>1, <2>3, <2>8 DEF vars
    <2> QED BY <2>4, <2>5, <2>6, <2>7, <2>8 DEF Next
<1> QED BY <1>1, <1>2, PTL DEF Spec

-----------------------------------------------------------------------------
(* The properties *)

\* Only unblockneteasemusic has web ports, and it has hijack_ways.
LEMMA HijackOK ==
    ASSUME page \in Pages, NEW o \in Options, o \in {"http_port", "https_port"}
    PROVE  /\ "hijack_ways" \in Options
           /\ Table["hijack_ways"].default = "dont_hijack"
           /\ Table["hijack_ways"].service = "use_ipset"
           /\ Table["hijack_ways"].kind # "flag"
           /\ Table[o].depends = When("hijack_ways", {"dont_hijack", "use_ipset"})
<1>1. page = "unblockneteasemusic" BY RowFacts DEF RowOK
<1>2. "hijack_ways" \in Options BY <1>1, PagesOK DEF PageOK, Table, Options
<1> QED BY <1>2, RowFacts DEF RowOK

\* pub_access goes with hijack_ways.
LEMMA AccessOK ==
    ASSUME page \in Pages, "pub_access" \in Options
    PROVE  /\ "hijack_ways" \in Options /\ Table["hijack_ways"].kind # "flag"
           /\ Table["pub_access"].service = "0"
           /\ Table["pub_access"].depends = Table["hijack_ways"].depends
<1>1. page = "unblockneteasemusic" /\ Table["pub_access"].service = "0"
    BY RowFacts DEF RowOK
<1>2. "hijack_ways" \in Options BY <1>1, PagesOK DEF PageOK, Table, Options
<1> QED BY <1>1, <1>2, RowFacts DEF RowOK

\* What a page that is opened shows is what the service runs with, unless the
\* script overrules it.
LEMMA ShownRuns ==
    ASSUME page \in Pages, NEW u, UciOK(u), NEW l,
           NEW o \in Active(Load(u)), o \notin Disagree, Load(u)[o] # ""
    PROVE  Effective(u, l)[o] =
             IF \/ o = "pub_access" /\ Fw4 /\ Effective(u, l)["hijack_ways"] # "use_ipset"
                \/ o = "delayed_start" /\ l
             THEN "0" ELSE Load(u)[o]
<1>1. o \in Options BY RoundsGrow
<1>2. o \notin {"failure_interval", "recovery_interval"} BY DEF Disagree
<1>3. Load(u)[o] = Taken(u, o)
    <2>1. Load(u)[o] = IF u[o] # Unset THEN u[o] ELSE Table[o].default BY <1>1 DEF Load
    <2>2. Differs(o, Table[o]) => u[o] # Unset BY <1>1 DEF UciOK
    <2> QED BY <2>1, <2>2 DEF Differs, Taken
<1>4. CASE o \notin {"http_port", "https_port", "pub_access"}
    BY <1>1, <1>2, <1>3, <1>4, EffectiveIs
<1>5. CASE o \in {"http_port", "https_port"}
    <2>1. /\ "hijack_ways" \in Options /\ Table["hijack_ways"].service = "use_ipset"
          /\ Table[o].depends = When("hijack_ways", {"dont_hijack", "use_ipset"})
        BY <1>1, <1>5, HijackOK
    <2>2. Load(u)["hijack_ways"] \in {"dont_hijack", "use_ipset"}
        <3>1. Table[o].depends = {<<"hijack_ways", {"dont_hijack", "use_ipset"}>>}
            BY <2>1 DEF When
        <3>2. PICK d \in Table[o].depends : Load(u)[d[1]] \in d[2]
            BY <3>1 DEF Active, Shown
        <3>3. d = <<"hijack_ways", {"dont_hijack", "use_ipset"}>> BY <3>1
        <3> QED BY <3>2, <3>3
    <2>3. u["hijack_ways"] # Unset => u["hijack_ways"] \in {"dont_hijack", "use_ipset"}
        BY <2>1, <2>2 DEF Load
    <2>4. Hijack(u) # "use_hosts" BY <2>1, <2>3 DEF Hijack, Taken
    <2> QED BY <1>1, <1>2, <1>3, <1>5, <2>4, EffectiveIs
<1>6. CASE o = "pub_access"
    <2>1. "hijack_ways" \in Options BY <1>1, <1>6, AccessOK
    <2>2. Effective(u, l)["hijack_ways"] = Hijack(u) BY <2>1, EffectiveIs DEF Hijack
    <2> QED BY <1>1, <1>2, <1>3, <1>6, <2>2, EffectiveIs
<1> QED BY <1>4, <1>5, <1>6

\* Storing an unedited form changes nothing the script looks at: whether the
\* option is stored or not, its value is the same.
LEMMA StoreNeutral ==
    ASSUME page \in Pages, NEW u, UciOK(u), NEW o \in Options, o \notin Disagree
    PROVE  Taken(Store(Load(u)), o) = Taken(u, o)
<1> DEFINE f == Load(u)
<1>1. f[o] = IF u[o] # Unset THEN u[o] ELSE Table[o].default BY DEF Load
<1>2. u[o] # "" /\ (Differs(o, Table[o]) => u[o] # Unset) BY DEF UciOK
<1>3. o \in Active(f) \/ u[o] = Unset \/ u[o] = Table[o].service BY DEF UciOK
<1>4. Table[o].kind = "flag" /\ ~Table[o].required => Table[o].default = Table[o].service
    BY RowFacts DEF RowOK
<1>5. Store(f)[o] = IF \/ o \notin Active(f) \/ f[o] = ""
                       \/ Table[o].kind = "flag" /\ ~Table[o].required /\ f[o] = Table[o].default
                    THEN Unset ELSE f[o]
    BY DEF Store
<1>6. u[o] = Unset => f[o] = "" \/ f[o] = Table[o].service BY <1>1, <1>2 DEF Differs
<1> SUFFICES (IF Store(f)[o] # Unset THEN Store(f)[o] ELSE Table[o].service)
               = (IF u[o] # Unset THEN u[o] ELSE Table[o].service)
    BY DEF Taken
<1> HIDE DEF f
<1>7. CASE o \notin Active(f) BY <1>3, <1>5, <1>7
<1>8. CASE o \in Active(f) /\ f[o] = "" BY <1>1, <1>2, <1>5, <1>8
<1>9. CASE o \in Active(f) /\ f[o] # ""
    BY <1>1, <1>4, <1>5, <1>6, <1>9
<1> QED BY <1>7, <1>8, <1>9

\* The same of hijack_ways, as far as the web ports go.
LEMMA HijackNeutral ==
    ASSUME page \in Pages, NEW u, UciOK(u), "hijack_ways" \in Options,
           Table["hijack_ways"].default = "dont_hijack",
           Table["hijack_ways"].service = "use_ipset",
           Table["hijack_ways"].kind # "flag"
    PROVE  (Store(Load(u))["hijack_ways"] = "use_hosts") <=> (u["hijack_ways"] = "use_hosts")
<1> DEFINE f == Load(u)  h == "hijack_ways"
<1>1. f[h] = IF u[h] # Unset THEN u[h] ELSE "dont_hijack" BY DEF Load
<1>2. h \in Active(f) \/ u[h] = Unset \/ u[h] = "use_ipset" BY DEF UciOK
<1>3. Store(f)[h] = IF h \notin Active(f) \/ f[h] = "" THEN Unset ELSE f[h] BY DEF Store
<1>4. "use_hosts" # Unset /\ u[h] # "" BY DEF Unset, UciOK
<1> HIDE DEF f
<1> QED BY <1>1, <1>2, <1>3, <1>4 DEF f

\* Nor does the script make up a secret when there is one.
LEMMA SecretNeutral ==
    ASSUME page \in Pages, NEW u, UciOK(u), NEW l, SecretOK(Effective(u, l)), NEW o \in Options
    PROVE  Started(Store(Load(u)))[o] = Store(Load(u))[o]
<1>1. CASE o # "jwt_secret" BY <1>1 DEF Started
<1>2. CASE o = "jwt_secret"
    <2> DEFINE f == Load(u)
    <2>1. Table[o].kind # "flag" /\ Table[o].depends = {} /\ Table[o].service = ""
        BY <1>2, RowFacts DEF RowOK
    <2>2. Effective(u, l)[o] = Taken(u, o) BY <1>2, EffectiveIs
    <2>3. u[o] # Unset /\ u[o] # "" BY <1>2, <2>1, <2>2 DEF SecretOK, Taken, UciOK
    <2>4. f[o] = u[o] BY <2>3 DEF Load
    <2>5. o \in Active(f) BY <2>1, TopActive
    <2> HIDE DEF f
    <2>6. Store(f)[o] = u[o] BY <2>1, <2>3, <2>4, <2>5 DEF Store
    <2> QED BY <2>3, <2>6 DEF Started, f
<1> QED BY <1>1, <1>2

\* pub_access is shown only while hijack_ways is stored, and keeps its value.
LEMMA AccessNeutral ==
    ASSUME page \in Pages, NEW u, UciOK(u), "pub_access" \in Options
    PROVE  \/ Taken(u, "pub_access") = "0"
           \/ Hijack(Store(Load(u))) = Hijack(u)
<1> DEFINE f == Load(u)  h == "hijack_ways"
<1>1. /\ h \in Options /\ Table[h].kind # "flag" /\ Table["pub_access"].service = "0"
      /\ Table["pub_access"].depends = Table[h].depends
    BY AccessOK
<1>2. CASE h \in Active(f)
    <2>1. u[h] # Unset /\ u[h] # "" BY <1>1, <1>2 DEF UciOK
    <2>2. f[h] = u[h] BY <1>1, <2>1 DEF Load
    <2> HIDE DEF f
    <2>3. Store(f)[h] = u[h] BY <1>1, <1>2, <2>1, <2>2 DEF Store
    <2> QED BY <2>3 DEF Hijack, Taken, f
<1>3. CASE h \notin Active(f)
    <2>1. "pub_access" \notin Active(f) BY <1>1, <1>3, ShownTogether
    <2> QED BY <1>1, <2>1 DEF UciOK, Taken
<1> QED BY <1>2, <1>3

LEMMA NeutralRuns ==
    ASSUME page \in Pages, NEW u, UciOK(u), NEW l, SecretOK(Effective(u, l)),
           NEW o \in Options, o \notin Disagree
    PROVE  Effective(Started(Store(Load(u))), l)[o] = Effective(u, l)[o]
<1> DEFINE w == Started(Store(Load(u)))
<1>1. o \notin {"failure_interval", "recovery_interval"} BY DEF Disagree
<1>2. \A q \in Options : w[q] = Store(Load(u))[q] BY SecretNeutral
<1>3. Taken(w, o) = Taken(u, o) BY <1>2, StoreNeutral DEF Taken
<1>4. "hijack_ways" \in Options => Hijack(w) = Hijack(Store(Load(u)))
    BY <1>2 DEF Hijack, Taken
<1> HIDE DEF w
<1>5. CASE o \notin {"http_port", "https_port", "pub_access"}
    <2>1. Effective(w, l)[o] = Effective(u, l)[o] BY <1>1, <1>3, <1>5, EffectiveIs
    <2> QED BY <2>1 DEF w
<1>6. CASE o \in {"http_port", "https_port"}
    <2>1. /\ "hijack_ways" \in Options /\ Table["hijack_ways"].service = "use_ipset"
          /\ Table["hijack_ways"].default = "dont_hijack" /\ Table["hijack_ways"].kind # "flag"
        BY <1>6, HijackOK
    <2>2. (Store(Load(u))["hijack_ways"] = "use_hosts") <=> (u["hijack_ways"] = "use_hosts")
        BY <2>1, HijackNeutral
    <2>3. "use_hosts" # Unset BY DEF Unset
    <2>4. (Hijack(w) = "use_hosts") <=> (Hijack(u) = "use_hosts")
        BY <1>4, <2>1, <2>2, <2>3 DEF Hijack, Taken
    <2>5. Effective(w, l)[o] = Effective(u, l)[o] BY <1>1, <1>3, <1>6, <2>4, EffectiveIs
    <2> QED BY <2>5 DEF w
<1>7. CASE o = "pub_access"
    <2>1. "hijack_ways" \in Options BY <1>7, AccessOK
    <2>2. Taken(u, o) = "0" \/ Hijack(w) = Hijack(u) BY <1>4, <1>7, <2>1, AccessNeutral
    <2>3. Effective(w, l)[o] = Effective(u, l)[o] BY <1>1, <1>3, <1>7, <2>2, EffectiveIs
    <2> QED BY <2>3 DEF w
<1> QED BY <1>5, <1>6, <1>7

\* Whatever was edited, cleared, hidden, saved and applied before, a page that
\* is opened shows of every option the value the service runs with; the two
\* options the script overrules are off.
THEOREM FormsShownIsRun == Spec => []ShownIsRun
<1>1. FormsInv => ShownIsRun
    <2> SUFFICES ASSUME FormsInv, Settled, NEW o \in Active(form), o \notin Disagree,
                        form[o] # ""
                 PROVE  running[o] = IF Overruled(o) THEN "0" ELSE form[o]
        BY DEF ShownIsRun
    <2>1. page \in Pages /\ UciOK(uci) /\ form = Load(uci) /\ running = Effective(uci, late)
        BY DEF FormsInv, Settled
    <2>2. Effective(uci, late)[o] =
             IF \/ o = "pub_access" /\ Fw4 /\ Effective(uci, late)["hijack_ways"] # "use_ipset"
                \/ o = "delayed_start" /\ late
             THEN "0" ELSE Load(uci)[o]
        BY <2>1, ShownRuns
    <2> QED BY <2>1, <2>2 DEF Overruled
<1> QED BY <1>1, FormsInvariant, PTL

\* Saving and applying a page nobody has edited changes nothing of what runs.
THEOREM FormsNeutralSave == Spec => []NeutralSave
<1>1. FormsInv => NeutralSave
    <2> SUFFICES ASSUME FormsInv, Settled, NEW o \in Options, o \notin Disagree
                 PROVE  Effective(Started(Store(form)), late)[o] = running[o]
        BY DEF NeutralSave
    <2> QED BY NeutralRuns DEF FormsInv, Settled
<1> QED BY <1>1, FormsInvariant, PTL

\* A switch whose parent was switched off is off in the service too.
THEOREM FormsHiddenIsOff == Spec => []HiddenIsOff
<1>1. FormsInv => HiddenIsOff
    <2> SUFFICES ASSUME FormsInv, Settled, NEW o \in Options, o \notin Active(form),
                        Table[o].kind = "flag"
                 PROVE  running[o] = "0"
        BY DEF HiddenIsOff
    <2>1. page \in Pages /\ UciOK(uci) /\ form = Load(uci) /\ running = Effective(uci, late)
        BY DEF FormsInv, Settled
    <2>2. RowOK(page, o, Table[o]) BY <2>1, RowFacts
    <2>3. Table[o].depends # {} BY TopActive
    <2>4. /\ Table[o].service = "0"
          /\ o \notin {"http_port", "https_port", "failure_interval", "recovery_interval"}
        BY <2>2, <2>3 DEF RowOK
    <2>5. uci[o] = Unset \/ uci[o] = "0" BY <2>1, <2>4 DEF UciOK
    <2>6. Effective(uci, late)[o] = "0" \/ Effective(uci, late)[o] = Taken(uci, o)
        BY <2>4, EffectiveIs
    <2>7. Taken(uci, o) = "0" BY <2>4, <2>5 DEF Taken
    <2> QED BY <2>1, <2>6, <2>7
<1> QED BY <1>1, FormsInvariant, PTL
=============================================================================
