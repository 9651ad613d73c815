---------------------------- MODULE MCAudioFetch ----------------------------
(* A file of a few bytes whose first request brings a part of it.            *)
EXTENDS AudioFetch
=============================================================================
