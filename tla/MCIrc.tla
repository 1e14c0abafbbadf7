---- MODULE MCIrc ----
EXTENDS IrcLink
====
