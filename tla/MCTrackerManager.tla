-------------------------- MODULE MCTrackerManager --------------------------
(***************************************************************************)
(* Instances of TrackerManager for TLC.                                    *)
(***************************************************************************)
EXTENDS TrackerManager

\* One tracker, with an HTTP URL behind a UDP one; one with an HTTP URL and one
\* without; two, of which the second only has a valid queue_ptr.
MCTorrents ==
  {<< <<"udp", "http">> >>,
   << <<"udp">>, <<"http">> >>,
   << <<"http">>, <<"http", "http">> >>}

MCMinCount == -1
=============================================================================
