--------------------------- MODULE ServerMigrations ---------------------------
\* What apps/server/src/db.rs runs when the server, or `--create-user` or
\* `--pair` beside it, opens its database: one stamp, after every block.
EXTENDS Migrations

V1Tables ==
    << Create(1, "devices"), Create(1, "pairing_codes"), Create(1, "file_index"),
       Create(1, "emulator_state"), Create(1, "device_state"), Create(1, "sessions"),
       Create(1, "session_blobs") >>

V2Tables == << Create(2, "users"), Create(2, "web_sessions"), Create(2, "login_attempts") >>

Read == <<Statement(Always, "read", "", "")>>

ServerScript ==
    Read \o V1Tables \o V2Tables \o << Create(3, "history_settings"),
       AddColumn(4, "emulator_state", "last_commit_at"), SetVersion(Always, 4) >>

=============================================================================
