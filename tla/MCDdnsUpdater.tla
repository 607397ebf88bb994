----------------------------- MODULE MCDdnsUpdater -----------------------------
EXTENDS DdnsUpdater

CONSTANTS home, away, none, google1, google2

MCAddr == {home, away}
MCResolver == {google1, google2}

===============================================================================
