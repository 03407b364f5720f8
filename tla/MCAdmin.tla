------------------------------- MODULE MCAdmin -------------------------------
(***************************************************************************)
(* AdminApi for TLC.  Two sources are registered; patches may swap their   *)
(* urls, and change a field of either table; a new source wants a fresh    *)
(* url or a registered one.  Switching a source off and hiding an entry    *)
(* come from the forms of the admin pages; one review names no feedback.   *)
(***************************************************************************)
EXTENDS AdminApi

CONSTANTS admin, reader, b1, b2, h1, h2

MCDefault == [url |-> "none", enabled |-> TRUE, crawl |-> TRUE, rights |-> "metadata_only"]
First  == [MCDefault EXCEPT !.url = "first", !.rights = "private_allowed"]
Second == [MCDefault EXCEPT !.url = "second", !.rights = "private_allowed"]
MCRegistered == <<First, Second>>

MCCreateBodies == {[url |-> "first"], [url |-> "third"]}
MCPatchBodies ==
  {[url |-> "first"], [url |-> "second", rights |-> "blocked"], [enabled |-> FALSE]}

MCNamed == {[type |-> "raw_entry", id |-> 1], [type |-> "reader_feedback", id |-> 1],
            [type |-> "reader_feedback", id |-> 2]}
MCReviewBodies == {[status |-> "resolved", note |-> "seen"]}
MCFormBodies == {[enabled |-> FALSE], [action |-> "hide"]}
=============================================================================
