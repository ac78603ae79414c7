----------------------------- MODULE MCEmbedded -----------------------------
(* Instances of Embedded for TLC. *)
EXTENDS Embedded, TLC

CONSTANTS c1, c2, t1, t2     \* two clients and their threads

\* A thread to a client.
OneEach(t) == IF t = t1 THEN c1 ELSE c2

\* Both threads use one client.
AllOne(t) == c1

\* Two clients that share their http port only.
SharedHttp(c) == {"http", IF c = c1 THEN "grpc1" ELSE "grpc2"}
Shared(c) == {"http", "grpc"}

Versions(c) == IF c = c1 THEN "1.30.5" ELSE "1.31.0"
Urls(c) == IF c = c1 THEN "https://host1/w.tar.gz" ELSE "https://host2/w.tar.gz"
=============================================================================
