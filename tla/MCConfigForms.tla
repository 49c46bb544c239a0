--------------------------- MODULE MCConfigForms ---------------------------
(* An instance of ConfigForms for TLC. *)
EXTENDS ConfigForms

\* Every option a dependency names, and of each kind of row one option.
MCEdited ==
    {"log", "log_compress", "log_path", "database_type", "mysql_port", "mysql_host", "ssl",
     "ssl_cert", "ssl_key", "force_https", "max_concurrency",
     "delayed_start", "jwt_secret",
     "enable_active_conn_ip_check", "music_source", "joox_cookie", "enable_flac",
     "enable", "select_max_br", "auto_update", "update_time", "advanced_mode", "hijack_ways",
     "http_port", "pub_access", "cnrelay", "time_mode", "timestart", "duration",
     "use_duration", "noweb", "time", "dns", "delay", "family",
     "track_gateway", "snat6", "track_method", "httping_ssl", "size", "check_quality",
     "failure_latency", "interval", "failure_interval"}
=============================================================================
