---------------------------- MODULE ConfigForms ----------------------------
(***************************************************************************)
(* The settings forms of five services and the scripts that read what they *)
(* store: openlist2/basic.js with openlist2.init,                          *)
(* unblockneteasemusic/config.js and ddns-go/config.js with their init     *)
(* scripts, the device rows of timecontrol/basic.js with timecontrolctrl,  *)
(* and the interface dialog of mwan3 (interface.js) with mwan3track and    *)
(* mwan3.sh.  An option has a default in the form and another one in the   *)
(* script, which counts whenever the form does not store it: never saved,  *)
(* cleared, hidden by depends(), or a ticked-as-default flag.  Two options *)
(* count only at times: pub_access with one way to hijack, delayed_start   *)
(* in the first minutes of the router.                                     *)
(* The value "std" is a default both sides write alike, "" an empty field. *)
(***************************************************************************)
EXTENDS Naturals

CONSTANTS
    Pages,     \* the forms of this instance
    Edited,    \* bound: the options the user edits; options that share a row
               \* of a table below behave alike, one of them is enough
    Fw4,       \* the router has fw4
    MaxEdits   \* bound: edits

VARIABLES
    page,     \* the form that is open
    form,     \* option -> value in its widget, hidden widgets included
    uci,      \* option -> stored value or Unset
    running,  \* option -> value the service was started with
    late,     \* it was started when the router was up for two minutes
    edits

vars == <<page, form, uci, running, late, edits>>

Unset == "unset"

\* The one-row table and the union of two tables, the first one counting where
\* both have a row; written out, as in module TLC, so that proofs can use them.
o :> row == [x \in {o} |-> row]
f @@ g == [x \in DOMAIN f \cup DOMAIN g |-> IF x \in DOMAIN f THEN f[x] ELSE g[x]]

Option(kind, default, required, service, depends) ==
    [kind |-> kind, default |-> default, required |-> required,
     service |-> service, depends |-> depends]

\* required is rmempty = false; depends is a set of <<option, values>>, one of
\* which must hold; the empty set is an option without depends().
Flag(default, service, depends) == Option("flag", default, TRUE, service, depends)
Removable(depends) == Option("flag", "0", FALSE, "0", depends)
Needed(default, service, depends) == Option("value", default, TRUE, service, depends)
Optional(default, service, depends) == Option("value", default, FALSE, service, depends)
Always == {}
When(parent, values) == {<<parent, values>>}

(*------------------------------- openlist2 ------------------------------*)
\* basic, global: enabled and max_concurrency have other defaults in the form
\* than in get_config.
Openlist2Basic ==
    [o \in {"port", "temp_dir", "token_expires_in", "max_connections",
            "auto_memory_limit", "min_free_memory", "max_block_limit"}
        |-> Needed("std", "std", Always)]
    @@ ("delayed_start" :> Needed("0", "0", Always))
    @@ [o \in {"site_url", "cdn", "jwt_secret", "proxy_address"} |-> Optional("", "", Always)]
    @@ [o \in {"force", "tls_insecure_skip_verify"} |-> Flag("1", "1", Always)]
    @@ ("enabled" :> Flag("0", "1", Always)) @@ ("allow_wan" :> Flag("0", "0", Always))
    @@ ("data_dir" :> Optional("std", "std", Always))

FaultyOpenlist2Limits == "max_concurrency" :> Optional("0", "64", Always)

Openlist2Limits == "max_concurrency" :> Needed("0", "64", Always)

Openlist2Log ==
    ("log" :> Flag("1", "1", Always)) @@ ("log_compress" :> Flag("0", "0", When("log", {"1"})))
    @@ [o \in {"log_path", "log_max_size", "log_max_backups", "log_max_age"}
        |-> Needed("std", "std", When("log", {"1"}))]

Openlist2Database ==
    LET remote == When("database_type", {"mysql", "postgres"}) IN
    ("database_type" :> Optional("sqlite3", "sqlite3", Always))
    @@ [o \in {"mysql_port", "mysql_table_prefix"} |-> Optional("std", "std", remote)]
    @@ [o \in {"mysql_host", "mysql_username", "mysql_password", "mysql_database",
               "mysql_ssl_mode", "mysql_dsn"} |-> Optional("", "", remote)]

FaultyOpenlist2Https ==
    [o \in {"force_https", "enable_h3"} |-> Flag("0", "1", When("ssl", {"1"}))]

Openlist2Https ==
    [o \in {"force_https", "enable_h3"} |-> Flag("0", "0", When("ssl", {"1"}))]

Openlist2Scheme ==
    [o \in {"ssl", "enable_h2c"} |-> Flag("0", "0", Always)]
    @@ [o \in {"ssl_cert", "ssl_key"} |-> Needed("", "", When("ssl", {"1"}))]

Openlist2Tasks ==
    [o \in {"download_workers", "download_max_retry", "transfer_workers",
            "transfer_max_retry", "upload_workers", "upload_max_retry", "copy_workers",
            "copy_max_retry", "move_workers", "move_max_retry", "decompress_workers",
            "decompress_max_retry", "decompress_upload_workers",
            "decompress_upload_max_retry"} |-> Needed("std", "std", Always)]
    @@ ("allow_retry_canceled" :> Flag("0", "0", Always))

Openlist2Servers ==
    [o \in {"cors_allow_origins", "cors_allow_methods", "cors_allow_headers", "s3_port",
            "ftp_port", "find_pasv_port_attempts", "idle_timeout", "connection_timeout",
            "sftp_port"} |-> Needed("std", "std", Always)]
    @@ [o \in {"s3", "s3_ssl", "ftp", "active_transfer_port_non_20", "disable_active_mode",
               "default_transfer_binary", "sftp", "mcp"} |-> Flag("0", "0", Always)]
    @@ [o \in {"enable_active_conn_ip_check", "enable_pasv_conn_ip_check"}
        |-> Flag("0", "1", Always)]

Openlist2 ==
    Openlist2Basic @@ Openlist2Limits @@ Openlist2Log @@ Openlist2Database
    @@ Openlist2Scheme @@ Openlist2Https @@ Openlist2Tasks @@ Openlist2Servers

(*-------------------------- unblockneteasemusic -------------------------*)
\* music_source is a list; lists of at most one source are enough for the
\* '!contains' dependencies.
Lossless == {"", "kugou", "kuwo", "migu", "pyncmd", "qq"}

UnblockSources ==
    ("enable" :> Flag("0", "0", Always)) @@ ("music_source" :> Optional("", "", Always))
    @@ ("joox_cookie" :> Needed("", "", When("music_source", {"joox"})))
    @@ ("migu_cookie" :> Optional("", "", When("music_source", {"migu"})))
    @@ ("qq_cookie" :> Needed("", "", When("music_source", {"qq"})))
    @@ ("youtube_key" :> Optional("", "", When("music_source", {"youtube"})))
    @@ ("enable_flac" :> Removable(When("music_source", Lossless)))
    @@ ("select_max_br" :> Removable(When("enable_flac", {"1"})))

UnblockClient ==
    [o \in {"follow_source_order", "search_album", "disable_upgrade_check", "block_ads",
            "auto_update"} |-> Removable(Always)]
    @@ ("replace_music_source" :> Optional("dont_replace", "dont_replace", Always))
    @@ ("local_vip" :> Optional("", "", Always))
    @@ ("update_time" :> Optional("std", "std", When("auto_update", {"1"})))

FaultyUnblockAccess ==
    [o \in {"pub_access", "strict_mode"}
        |-> Option("flag", "1", FALSE, "0", When("advanced_mode", {"1"}))]

UnblockAccess ==
    [o \in {"pub_access", "strict_mode"} |-> Removable(When("advanced_mode", {"1"}))]

\* hijack_ways is dont_hijack in the form and use_ipset in start_service.
UnblockAdvanced ==
    LET advanced == When("advanced_mode", {"1"}) IN
    ("advanced_mode" :> Removable(Always))
    @@ [o \in {"http_port", "https_port"}
        |-> Needed("std", "std", When("hijack_ways", {"dont_hijack", "use_ipset"}))]
    @@ ("hijack_ways" :> Needed("dont_hijack", "use_ipset", advanced))
    @@ [o \in {"log_level", "self_issue_cert_crt", "self_issue_cert_key"}
        |-> Optional("std", "std", advanced)]
    @@ ("endpoint_url" :> Needed("std", "std", advanced))
    @@ [o \in {"cnrelay", "netease_server_ip", "proxy_server_ip"} |-> Optional("", "", advanced)]

Unblock == UnblockSources @@ UnblockClient @@ UnblockAccess @@ UnblockAdvanced

(*-------------------------- timecontrol, ddns-go ------------------------*)
Timecontrol ==
    [o \in {"timestart", "timeend"}
        |-> Optional("std", "std", When("time_mode", {"period", "combined"}))]
    @@ [o \in {"duration", "reset_cycle"}
        |-> Optional("std", "std", When("time_mode", {"duration", "combined"}))]
    @@ ("use_duration" :> Removable(When("time_mode", {"combined"})))
    @@ ("time_mode" :> Needed("period", "period", Always))
    @@ ("enable" :> Flag("1", "0", Always)) @@ ("mac" :> Needed("", "", Always))
    @@ [o \in {"week", "list_type", "chain"} |-> Needed("std", "std", Always)]
    @@ ("comment" :> Optional("", "", Always))

\* delay is 60 in the form and 0 in start_instance.
DdnsGo ==
    [o \in {"enabled", "noweb"} |-> Flag("0", "0", Always)]
    @@ ("port" :> Needed("std", "std", Always))
    @@ [o \in {"time", "ctimes", "skipverify"} |-> Optional("std", "std", Always)]
    @@ ("dns" :> Optional("", "std", Always)) @@ ("delay" :> Optional("60", "0", Always))

(*------------------------------ mwan3 interface -------------------------*)
Mwan3Link ==
    ("enabled" :> Removable(Always)) @@ ("initial_state" :> Optional("std", "std", Always))
    @@ ("family" :> Optional("ipv4", "ipv4", Always))
    @@ ("track_gateway" :> Removable(When("family", {"ipv4"})))
    @@ ("snat6" :> Optional("", "", When("family", {"ipv6"})))
    @@ ("track_ip" :> Optional("", "", Always))
    @@ ("track_method" :> Optional("ping", "ping", Always))
    @@ ("httping_ssl" :> Flag("0", "0", When("track_method", {"httping"})))

Mwan3Probe ==
    [o \in {"reliability", "count"} |-> Optional("std", "std", Always)]
    @@ [o \in {"size", "max_ttl"} |-> Optional("std", "std", When("track_method", {"ping"}))]
    @@ ("check_quality" :> Removable(When("track_method", {"ping"})))
    @@ [o \in {"failure_latency", "failure_loss", "recovery_latency", "recovery_loss"}
        |-> Optional("std", "std", When("check_quality", {"1"}))]

\* failure_interval and recovery_interval are 5 in the form; load_tracking_config
\* takes the interval in use for both.
Mwan3Rounds ==
    [o \in {"timeout", "down", "up"} |-> Optional("std", "std", Always)]
    @@ ("interval" :> Optional("10", "10", Always))
    @@ [o \in {"failure_interval", "recovery_interval"} |-> Optional("5", "10", Always)]
    @@ ("keep_failure_interval" :> Removable(Always))
    @@ ("flush_conntrack" :> Optional("", "", Always))

Mwan3Interface == Mwan3Link @@ Mwan3Probe @@ Mwan3Rounds

\* The form of each page.
Tables == [openlist2 |-> Openlist2, unblockneteasemusic |-> Unblock,
           timecontrol |-> Timecontrol, ddnsgo |-> DdnsGo,
           mwan3 |-> Mwan3Interface]

\* The configuration files the packages install.
Openlist2File ==
    [o \in {"enabled", "allow_wan", "log_compress", "ssl", "allow_retry_canceled", "s3",
            "mcp", "delayed_start"} |-> "0"]
    @@ [o \in {"force", "tls_insecure_skip_verify", "log"} |-> "1"]
    @@ [o \in {"port", "token_expires_in", "max_connections",
               "auto_memory_limit", "min_free_memory", "max_block_limit", "data_dir",
               "temp_dir", "log_max_size", "log_max_backups", "log_max_age",
               "cors_allow_origins", "cors_allow_methods", "cors_allow_headers"} |-> "std"]
    @@ [o \in DOMAIN Openlist2Tasks \ {"allow_retry_canceled"} |-> "std"]
    @@ ("max_concurrency" :> "64") @@ ("database_type" :> "sqlite3")

UnblockFile ==
    ("enable" :> "0") @@ ("disable_upgrade_check" :> "1") @@ ("auto_update" :> "1")
    @@ ("update_time" :> "std")

TimecontrolFile ==
    ("enable" :> "0") @@ ("chain" :> "input")
    @@ [o \in {"timestart", "timeend", "mac", "week", "list_type"} |-> "std"]

DdnsGoFile ==
    [o \in {"enabled", "delay"} |-> "0"]
    @@ [o \in {"port", "time", "ctimes", "skipverify", "dns"} |-> "std"]

Mwan3File ==
    ("enabled" :> "0") @@ ("family" :> "ipv4")
    @@ [o \in {"track_ip", "reliability"} |-> "other"]

Installed == [openlist2 |-> Openlist2File, unblockneteasemusic |-> UnblockFile,
              timecontrol |-> TimecontrolFile, ddnsgo |-> DdnsGoFile,
              mwan3 |-> Mwan3File]

ASSUME Fw4Assumption == Fw4 \in BOOLEAN
ASSUME PagesAreForms == Pages \subseteq DOMAIN Tables

-----------------------------------------------------------------------------
(* The form mechanics of LuCI that these pages rely on. *)

Table == Tables[page]
Options == DOMAIN Table

\* checkDepends, one round: an option whose parent is not shown so far (A)
\* meets no dependency.  LuCI repeats it until nothing changes, and no option
\* here is more than two parents deep.
Shown(f, A) ==
    {o \in Options : \/ Table[o].depends = {}
                     \/ \E d \in Table[o].depends : d[1] \in A /\ f[d[1]] \in d[2]}

Active(f) == Shown(f, Shown(f, Shown(f, {})))

\* What the widgets show of a stored configuration.
Load(u) == [o \in Options |-> IF u[o] # Unset THEN u[o] ELSE Table[o].default]

\* A save is refused while a shown field that must not be empty is.
Valid(f) == \A o \in Active(f) : Table[o].required => f[o] # ""

\* Hidden options, empty fields and flags left at their default are removed.
Store(f) ==
    LET active == Active(f) IN
    [o \in Options |->
        IF \/ o \notin active
           \/ f[o] = ""
           \/ Table[o].kind = "flag" /\ ~Table[o].required /\ f[o] = Table[o].default
        THEN Unset ELSE f[o]]

\* get_config of openlist2 stores a secret of its own for one that is not set.
Started(u) ==
    [o \in Options |-> IF o = "jwt_secret" /\ u[o] = Unset THEN "generated" ELSE u[o]]

\* The values the script starts the service with: start_service of
\* unblockneteasemusic takes the web ports when it hijacks by hosts and, with
\* fw4, opens them to the public only when it hijacks by ipset; start_service
\* of openlist2 waits only while the router boots (l: it has booted);
\* load_tracking_config of mwan3track takes the interval for the other two.
Effective(u, l) ==
    LET get(o) == IF u[o] # Unset THEN u[o] ELSE Table[o].service IN
    [o \in Options |->
        CASE o \in {"http_port", "https_port"} /\ get("hijack_ways") = "use_hosts" -> "web"
          [] o = "pub_access" /\ Fw4 /\ get("hijack_ways") # "use_ipset" -> "0"
          [] o = "delayed_start" /\ l -> "0"
          [] o \in {"failure_interval", "recovery_interval"} /\ u[o] = Unset -> get("interval")
          [] OTHER -> get(o)]

Choices(o) ==
    CASE Table[o].kind = "flag" -> {"0", "1"}
      [] o = "database_type" -> {"sqlite3", "mysql", "postgres"}
      [] o = "hijack_ways" -> {"dont_hijack", "use_ipset", "use_hosts"}
      [] o = "music_source" -> {"", "joox", "kugou", "qq", "youtube"}
      [] o = "time_mode" -> {"period", "duration", "combined"}
      [] o = "family" -> {"ipv4", "ipv6"}
      [] o = "track_method" -> {"ping", "httping", "arping"}
      [] o \in {"interval", "failure_interval"} -> {"5", "10"}
      [] o = "replace_music_source" -> {"dont_replace", "replace_all"}
      [] OTHER -> {"", "other"}

-----------------------------------------------------------------------------
\* What the installed file sets of the options of the page.
Preset ==
    LET file == Installed[page] IN
    [o \in Options |-> IF o \in DOMAIN file THEN file[o] ELSE Unset]

Init ==
    /\ page \in Pages /\ late \in BOOLEAN
    /\ uci = Started(Preset)
    /\ form = Load(uci)
    /\ running = Effective(uci, late)
    /\ edits = 0

\* The user edits a field that is shown; a hidden one keeps what it had.
change ==
    /\ edits < MaxEdits /\ edits' = edits + 1
    /\ \E o \in Edited \cap Active(form) : \E v \in Choices(o) \ {form[o]} :
          form' = [form EXCEPT ![o] = v]
    /\ UNCHANGED <<page, uci, running, late>>

\* Save stages the form and renders it again from what is stored.
save ==
    /\ Valid(form)
    /\ uci' = Store(form) /\ form' = Load(uci')
    /\ UNCHANGED <<page, running, late, edits>>

\* Apply commits; the reload trigger restarts the service, now or when the
\* router boots, and the page loads what the script left.
apply ==
    /\ late' \in BOOLEAN
    /\ uci' = Started(uci)
    /\ running' = Effective(uci', late') /\ form' = Load(uci')
    /\ UNCHANGED <<page, edits>>

\* Reset, or opening the page again, drops what was not saved.
reset ==
    /\ form' = Load(uci)
    /\ UNCHANGED <<page, uci, running, late, edits>>

Next == change \/ save \/ apply \/ reset

Spec == Init /\ [][Next]_vars
-----------------------------------------------------------------------------
(* Properties *)

\* Nothing is edited, and the service runs what is stored.
Settled == form = Load(uci) /\ running = Effective(uci, late)

\* The options whose two defaults differ and can meet: delay of ddns-go once
\* the field is cleared, hijack_ways of unblockneteasemusic once it is hidden,
\* the two address checks of openlist2 and the two intervals of mwan3, which no
\* installed file sets.  enabled and max_concurrency differ too but are always
\* stored.
Disagree == {"delay", "hijack_ways", "enable_active_conn_ip_check",
             "enable_pasv_conn_ip_check", "failure_interval", "recovery_interval"}

\* The script takes the option for off, whatever is stored.
Overruled(o) ==
    \/ o = "pub_access" /\ Fw4 /\ running["hijack_ways"] # "use_ipset"
    \/ o = "delayed_start" /\ late

\* Whatever was edited, cleared, hidden, saved and applied before, a page that
\* is opened shows of every option the value the service runs with; an empty
\* field leaves the value to the service.  The page does not tell of the two
\* options the script overrules: those are off.
ShownIsRun ==
    Settled => \A o \in Active(form) \ Disagree :
        form[o] # "" => running[o] = IF Overruled(o) THEN "0" ELSE form[o]

\* A claim that no run checks; the README, "Where the code and its documentation
\* disagree", tells the behaviour that refutes it.
\* "Tick this for public access": what the page says of pub_access.  With fw4
\* the ports stay closed unless the service hijacks by ipset.
AccessGiven ==
    Settled /\ "pub_access" \in Active(form) /\ running["enable"] = "1" /\ form["pub_access"] = "1"
    => running["pub_access"] = "1"

\* Saving and applying a page nobody has edited changes nothing of what runs,
\* the secret get_config made up included.
NeutralSave ==
    Settled /\ Valid(form) =>
        LET next == Effective(Started(Store(form)), late) IN
        \A o \in Options \ Disagree : next[o] = running[o]

\* A switch whose parent was switched off is off in the service too: no
\* force_https without ssl, no pub_access once the advanced settings are gone.
HiddenIsOff ==
    Settled => \A o \in Options \ Active(form) : Table[o].kind = "flag" => running[o] = "0"
=============================================================================
