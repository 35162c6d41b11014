---- MODULE MCWindowLayout ----
EXTENDS WindowLayout
====
